---- MODULE Spec2Model ----
(***************************************************************************)
(* State-machine model of the momentum-trading engine (src/strategy.py,    *)
(* src/utils.py, src/order_manager.py, src/ws_manager.py, src/bot.py).     *)
(*                                                                         *)
(* The engine runs on one asyncio event loop.  A step of the model is the  *)
(* code a task runs between two suspension points (an await that really    *)
(* yields: a network call, a sleep, a wait for the position lock).         *)
(*                                                                         *)
(* Units: prices are integers in units of 0.01 (10000 stands for 100.00),  *)
(* times are integer seconds of time.time().                               *)
(***************************************************************************)
EXTENDS Integers, Sequences, FiniteSets, TLC

\* ------------------------------------------------------------------ bounds
MaxTime == 121            \* seconds of wall clock the model lets elapse
StartTime == 5000         \* time.time() when the engine is constructed
MaxOrders == 2            \* entry orders the exchange accepts in a run
MaxArms == 2              \* armed candidates created in a run
MaxScans == 1             \* confirmation scans of one instrument waiting for the lock
MaxRiskTime == 9          \* seconds followed one by one after the start and after an hour
MaxRiskHours == 1         \* whole hours that pass when the risk manager is exercised
MaxBars == 2              \* max_bars the aggregator is constructed with (deque maxlen)
MaxTicks == 4             \* add_tick calls followed on one aggregator

\* ------------------------------------------------------ program constants
ARMED_CANDIDATE_TIMEOUT_SEC == 20
ORDER_PENDING_TIMEOUT == 30
MAX_POSITION_HOLD_SECONDS == 120
MIN_CONFIRMATIONS_NEEDED == 1
MAX_SPREAD_PCT_E2 == 35              \* MAX_SPREAD_PCT = 0.35, times 100
BASE_ORDER_NOTIONAL_USDT == 20
TRAILING_ACTIVATION_BPS == 15
TRAILING_DISTANCE_ATR_MULTIPLIER == 1
TRAILING_DISTANCE_MIN_BPS == 10
MAX_CONCURRENT_TRADES == 1
MAX_CONSECUTIVE_LOSSES == 5
MAX_DAILY_LOSS == 30
COOL_DOWN_AFTER_EXIT_SEC == 2
COOL_DOWN_AFTER_LOSS_SEC == 8
MAX_TRADES_PER_PAIR_PER_HOUR == 8
HOUR_SEC == 3600

\* ------------------------------------------------------------ input sets
Insts == {"A-USDT", "B-USDT"}

\* Seconds by which the clock advances between two steps of the engine.
TickSteps == {121}

\* Top-of-book updates (bbo-tbt): best bid and best ask.  ok = FALSE is an
\* update with a missing side.
Books == { [ok |-> TRUE,  bid |-> 9998,  ask |-> 10002],
           [ok |-> TRUE,  bid |-> 9990,  ask |-> 10042],
           [ok |-> FALSE, bid |-> 0,     ask |-> 0] }

\* ATR (in price units) a setup scan may derive from the bar history.
AtrChoices == {5}

\* Number of confirmation signals (z-score, volume, imbalance) a scan counts.
ConfChoices == {0, 1}

\* availBal values the balance query / account channel may report.
BalanceChoices == {0, 100}

\* Fill reports of the exchange: average price, filled size, fee (OKX reports
\* a charged fee as a negative number).
EntryFills == { [px |-> 10000, sz |-> 1, fee |-> -2] }
ExitFills == { [px |-> 10040, sz |-> 1, fee |-> -2],
                [px |-> 9960,  sz |-> 1, fee |-> -2] }

Abs(x) == IF x < 0 THEN -x ELSE x
Max(a, b) == IF a >= b THEN a ELSE b
Min(a, b) == IF a <= b THEN a ELSE b

VARIABLES
    now,               \* time.time()
    pairs_data,        \* MomentumSniper.pairs_data: per instrument snapshot
    armed_candidates,  \* MomentumSniper.armed_candidates
    arm_count,         \* number of candidate dicts created so far (object identity)
    active_position,   \* MomentumSniper.active_position
    position_lock,     \* holder of MomentumSniper.position_lock
    usdt_balance,      \* OrderManager.usdt_balance
    risk,              \* RiskManager fields
    pair_trade_times,  \* RiskManager.pair_trade_times
    exec_waiting,      \* check_execution_conditions tasks waiting for the lock
    enter_waiting,     \* enter_position tasks created and waiting for the lock
    enter_run,         \* the enter_position task holding the lock
    mon,               \* monitor_position task: position in its loop
    orders,            \* the exchange's view of the entry orders it accepted
    trade_log,         \* trades written by trade_logger.log_trade, in order
    bar_aggregators,   \* MomentumSniper.bar_aggregators: per instrument BarAggregator
    tick_log,          \* history: the add_tick calls so far, in order
    exec_eval,         \* locals of the last count of confirmation signals
    setup_eval,        \* outcome of the last run of the setup filters
    ws,                \* WSManager.run (private): the update it is handling
    halted             \* main() has left its gather and cancelled every task

vars == << now, pairs_data, armed_candidates, arm_count, active_position,
           position_lock, usdt_balance, risk, pair_trade_times,
           exec_waiting, enter_waiting, enter_run, mon, orders, trade_log,
           bar_aggregators, tick_log, exec_eval, setup_eval, ws, halted >>

\* ------------------------------------------------------------- records
NoData == [has |-> FALSE, best_bid |-> 0, best_ask |-> 0, mid |-> 0]

NoCandidate == [armed |-> FALSE, id |-> 0, time |-> 0, atr |-> 0]

NoPosition ==
    [ state |-> "ABSENT", inst_id |-> "", entry_order_id |-> 0,
      attach_algo_id |-> 0, cand |-> 0, atr |-> 0, time |-> 0,
      entry_price |-> 0, entry_size |-> 0, entry_fee |-> 0, peak_price |-> 0,
      trailing_active |-> FALSE, current |-> 0,
      exit_order_id |-> 0, exit_price |-> 0, exit_fee |-> 0, exit_type |-> "" ]

NoRun == [pc |-> "none", inst |-> "", cand |-> 0, atr |-> 0, ord |-> 0, algo |-> 0]

NoUpdate == [kind |-> "none", instId |-> "", ordId |-> 0, algoId |-> 0,
             state |-> "", px |-> 0, sz |-> 0, fee |-> 0, bal |-> 0]

MonIdle == [pc |-> "sleep", reason |-> ""]

\* No setup filters run yet; a run that arms nothing has armed FALSE and the
\* reason it logged.  raw_tp_bps, raw_sl_bps, tp_bps, sl_bps, rr, tp and sl are
\* fractions num / den.
NoSetup == [done |-> FALSE, closes |-> << >>, atr |-> 0, armed |-> FALSE,
            reason |-> "", entry_price |-> 0,
            raw_tp_bps |-> [num |-> 0, den |-> 1],
            raw_sl_bps |-> [num |-> 0, den |-> 1],
            tp_bps |-> [num |-> 0, den |-> 1], sl_bps |-> [num |-> 0, den |-> 1],
            rr |-> [num |-> 0, den |-> 1],
            tp |-> [num |-> 0, den |-> 1], sl |-> [num |-> 0, den |-> 1]]

\* The private socket task between two messages: update is the order update
\* it has received and awaits handle_account_update with (kind "" when it
\* has none), received the order ids (algo ids negated) whose fill it has
\* received so far, early those it received before enter_position had
\* committed the Position of that order.
NoWs == [update |-> NoUpdate, received |-> {}, early |-> {}]

\* No confirmation signals counted yet.
NoEval == [done |-> FALSE, rets |-> << >>, volumes |-> << >>, bid_vol |-> 0,
           ask_vol |-> 0, reasons |-> {}, confirmations |-> 0]

\* current_bar = None, and a BarAggregator as its constructor leaves it.
NoBar == [has |-> FALSE, start |-> 0, o |-> 0, h |-> 0, l |-> 0, c |-> 0]

NewAggregator ==
    [bars |-> << >>, current_bar |-> NoBar, current_bar_start |-> 0,
     trade_volumes |-> << >>]

HasPosition == active_position.state # "ABSENT"

\* ---------------------------------------------------------- RiskManager
\* The trade times of one instrument that are younger than an hour at t.
RecentTrades(times, t) == SelectSeq(times, LAMBDA x : t - x < HOUR_SEC)

\* A risk manager that admits whatever its state is.
CanOpenReason_Admit(r, ptt, inst, open_positions, t) == ""

\* A risk manager whose post-exit cooldown still blocks at its expiry.
CanOpenReason_InclusiveCooldown(r, ptt, inst, open_positions, t) ==
    IF t - r.last_trade_time <= COOL_DOWN_AFTER_EXIT_SEC THEN "Cooldown"
    ELSE IF r.consecutive_losses > 0
            /\ t - r.last_loss_time < COOL_DOWN_AFTER_LOSS_SEC THEN "Loss cooldown"
    ELSE IF r.daily_pnl <= -(MAX_DAILY_LOSS * 100) THEN "Daily loss limit hit"
    ELSE IF r.consecutive_losses >= MAX_CONSECUTIVE_LOSSES THEN "Max consecutive losses"
    ELSE IF open_positions >= MAX_CONCURRENT_TRADES THEN "Max concurrent trades"
    ELSE IF Len(RecentTrades(ptt[inst], t)) >= MAX_TRADES_PER_PAIR_PER_HOUR THEN "rate limit"
    ELSE ""

\* A risk manager that tests the consecutive-loss cap before the daily-loss
\* cap.
CanOpenReason_LossRunFirst(r, ptt, inst, open_positions, t) ==
    IF t - r.last_trade_time < COOL_DOWN_AFTER_EXIT_SEC THEN "Cooldown"
    ELSE IF r.consecutive_losses > 0
            /\ t - r.last_loss_time < COOL_DOWN_AFTER_LOSS_SEC THEN "Loss cooldown"
    ELSE IF r.consecutive_losses >= MAX_CONSECUTIVE_LOSSES THEN "Max consecutive losses"
    ELSE IF r.daily_pnl <= -(MAX_DAILY_LOSS * 100) THEN "Daily loss limit hit"
    ELSE IF open_positions >= MAX_CONCURRENT_TRADES THEN "Max concurrent trades"
    ELSE IF Len(RecentTrades(ptt[inst], t)) >= MAX_TRADES_PER_PAIR_PER_HOUR THEN "rate limit"
    ELSE ""

\* RiskManager.can_open_position: "" when the position is allowed, else the
\* reason of the first check that fails.
CanOpenReason(r, ptt, inst, open_positions, t) ==
    IF t - r.last_trade_time < COOL_DOWN_AFTER_EXIT_SEC THEN "Cooldown"
    ELSE IF r.consecutive_losses > 0
            /\ t - r.last_loss_time < COOL_DOWN_AFTER_LOSS_SEC THEN "Loss cooldown"
    ELSE IF r.daily_pnl <= -(MAX_DAILY_LOSS * 100) THEN "Daily loss limit hit"
    ELSE IF r.consecutive_losses >= MAX_CONSECUTIVE_LOSSES THEN "Max consecutive losses"
    ELSE IF open_positions >= MAX_CONCURRENT_TRADES THEN "Max concurrent trades"
    ELSE IF Len(RecentTrades(ptt[inst], t)) >= MAX_TRADES_PER_PAIR_PER_HOUR THEN "rate limit"
    ELSE ""

\* can_open_position stores the pruned window once it reaches the rate check.
CanOpenPrune(r, ptt, inst, open_positions, t) ==
    IF CanOpenReason(r, ptt, inst, open_positions, t) \in {"", "rate limit"}
    THEN [ptt EXCEPT ![inst] = RecentTrades(ptt[inst], t)]
    ELSE ptt

\* A record_trade that leaves the run of losses alone on a win.
RecordTradeRisk_KeepRun(r, pnl, t) ==
    [ daily_pnl |-> r.daily_pnl + pnl,
      last_trade_time |-> t,
      consecutive_losses |-> IF pnl < 0 THEN r.consecutive_losses + 1
                             ELSE r.consecutive_losses,
      last_loss_time |-> IF pnl < 0 THEN t ELSE r.last_loss_time ]

\* RiskManager.record_trade
RecordTradeRisk(r, pnl, t) ==
    [ daily_pnl |-> r.daily_pnl + pnl,
      last_trade_time |-> t,
      consecutive_losses |-> IF pnl < 0 THEN r.consecutive_losses + 1 ELSE 0,
      last_loss_time |-> IF pnl < 0 THEN t ELSE r.last_loss_time ]

RecordTradeTimes(ptt, inst, t) == [ptt EXCEPT ![inst] = Append(ptt[inst], t)]

\* ------------------------------------------------------------------ Init
Init ==
    /\ now = StartTime
    /\ pairs_data = [i \in Insts |-> NoData]
    /\ armed_candidates = [i \in Insts |-> NoCandidate]
    /\ arm_count = 0
    /\ active_position = NoPosition
    /\ position_lock = "free"
    /\ usdt_balance = 0
    /\ risk = [daily_pnl |-> 0, consecutive_losses |-> 0,
               last_trade_time |-> 0, last_loss_time |-> 0]
    /\ pair_trade_times = [i \in Insts |-> << >>]
    /\ exec_waiting = [i \in Insts |-> 0]
    /\ enter_waiting = {}
    /\ enter_run = NoRun
    /\ mon = MonIdle
    /\ orders = << >>
    /\ trade_log = << >>
    /\ bar_aggregators = [i \in Insts |-> NewAggregator]
    /\ tick_log = << >>
    /\ exec_eval = NoEval
    /\ setup_eval = NoSetup
    /\ ws = NoWs
    /\ halted = FALSE

\* ----------------------------------------------------------------- clock
Tick ==
    /\ ~halted
    /\ \E d \in TickSteps :
          /\ now + d <= StartTime + MaxTime
          /\ now' = now + d
    /\ UNCHANGED << ws, setup_eval, exec_eval, bar_aggregators, tick_log, trade_log, pairs_data, armed_candidates, arm_count, active_position,
                    position_lock, usdt_balance, risk, pair_trade_times,
                    exec_waiting, enter_waiting, enter_run, mon, orders, halted >>

\* ------------------------------------------------ check_setup_conditions
\* A setup scan that arms again, with a fresh candidate, an instrument that
\* already has one.
SetupScan_Refresh(cands, i, arm, atr) ==
    IF arm /\ arm_count < MaxArms
    THEN [cands EXCEPT ![i] =
             [armed |-> TRUE, id |-> arm_count + 1, time |-> now, atr |-> atr]]
    ELSE cands

\* The setup scan has no suspension point.  Its filters over the bar history
\* (bar count, breakout, ATR, reward:risk) are input here: arm says whether
\* they all pass, atr is the ATR they derive.
SetupScan(cands, i, arm, atr) ==
    IF cands[i].armed THEN cands
    ELSE IF arm /\ arm_count < MaxArms
         THEN [cands EXCEPT ![i] =
                  [armed |-> TRUE, id |-> arm_count + 1, time |-> now, atr |-> atr]]
         ELSE cands

\* -------------------------------------------- check_execution_conditions
\* The spread test of the confirmation scan (a percentage of the ask).
SpreadTooWide(pd) ==
    (pd.best_ask - pd.best_bid) * 100 * 100 > MAX_SPREAD_PCT_E2 * pd.best_ask

\* A scan that reads the candidate and leaves it armed.
PopCandidate_Keep(cands, i) == cands

\* armed_candidates.pop(inst_id, None): the candidates left after the pop.
PopCandidate(cands, i) == [cands EXCEPT ![i] = NoCandidate]

\* A pass that dispatches without counting the confirmation signals.
ExecCritical_Unconfirmed(cands, i, conf, pd) ==
    LET cand == cands[i]
        drop == [cands EXCEPT ![i] = NoCandidate]
        ptt2 == CanOpenPrune(risk, pair_trade_times, i, 0, now)
        keep == [cands |-> cands, ptt |-> pair_trade_times, fire |-> FALSE]
    IN  IF HasPosition THEN keep
        ELSE IF ~cand.armed THEN keep
        ELSE IF now - cand.time > ARMED_CANDIDATE_TIMEOUT_SEC
             THEN [keep EXCEPT !.cands = drop]
        ELSE IF CanOpenReason(risk, pair_trade_times, i, 0, now) # ""
             THEN [keep EXCEPT !.ptt = ptt2]
        ELSE IF pd.best_ask = 0        \* division by zero: the except branch
             THEN [cands |-> drop, ptt |-> ptt2, fire |-> FALSE]
        ELSE IF SpreadTooWide(pd) THEN [keep EXCEPT !.ptt = ptt2]
        ELSE [cands |-> PopCandidate(cands, i), ptt |-> ptt2, fire |-> TRUE]

\* The lock-held pass of the confirmation scan on candidates cands, with pd
\* the snapshot pairs_data holds for the instrument at that time;
\* conf is the number of confirmation signals that pass.  fire says whether
\* enter_position is dispatched with the popped candidate.
ExecCritical(cands, i, conf, pd) ==
    LET cand == cands[i]
        drop == [cands EXCEPT ![i] = NoCandidate]
        ptt2 == CanOpenPrune(risk, pair_trade_times, i, 0, now)
        keep == [cands |-> cands, ptt |-> pair_trade_times, fire |-> FALSE]
    IN  IF HasPosition THEN keep
        ELSE IF ~cand.armed THEN keep
        ELSE IF now - cand.time > ARMED_CANDIDATE_TIMEOUT_SEC
             THEN [keep EXCEPT !.cands = drop]
        ELSE IF CanOpenReason(risk, pair_trade_times, i, 0, now) # ""
             THEN [keep EXCEPT !.ptt = ptt2]
        ELSE IF pd.best_ask = 0        \* division by zero: the except branch
             THEN [cands |-> drop, ptt |-> ptt2, fire |-> FALSE]
        ELSE IF SpreadTooWide(pd) THEN [keep EXCEPT !.ptt = ptt2]
        ELSE IF conf < MIN_CONFIRMATIONS_NEEDED THEN [keep EXCEPT !.ptt = ptt2]
        ELSE [cands |-> PopCandidate(cands, i), ptt |-> ptt2, fire |-> TRUE]

\* The state a lock-held pass leaves: candidates, risk window, and the
\* enter_position task it creates.
ApplyExec(cands, i, conf, pd) ==
    LET out == ExecCritical(cands, i, conf, pd)
        sig == [inst |-> i, cand |-> cands[i].id, atr |-> cands[i].atr]
    IN  /\ armed_candidates' = out.cands
        /\ pair_trade_times' = out.ptt
        /\ enter_waiting' = IF out.fire THEN enter_waiting \cup {sig} ELSE enter_waiting

\* ------------------------------------------------------- handle_bbo_data
\* handle_bbo_data on a top-of-book update of instrument i, with the two
\* scans it creates.  A missing side returns at once.  Else the snapshot is
\* stored (before the mid price is tested) and, for a positive mid, the tick
\* goes to the bars and both scans are created; they run back to back, the
\* confirmation scan up to the position lock, and through it when it is free.
\* books are the updates the exchange may send, arms the outcomes the setup
\* filters may have.
HandleBBOFrom(books, arms) ==
    /\ ~halted
    /\ \E i \in Insts, b \in books, arm \in arms, atr \in AtrChoices, conf \in ConfChoices :
          LET mid == (b.bid + b.ask) \div 2
              pd  == [has |-> TRUE, best_bid |-> b.bid, best_ask |-> b.ask,
                      mid |-> mid]
              c1  == SetupScan(armed_candidates, i, arm, atr)
          IN  IF ~b.ok
              THEN UNCHANGED << pairs_data, armed_candidates, arm_count,
                                pair_trade_times, enter_waiting,
                                exec_waiting >>
              ELSE /\ pairs_data' = [pairs_data EXCEPT ![i] = pd]
                   /\ IF mid <= 0
                      THEN UNCHANGED << armed_candidates, arm_count, pair_trade_times,
                                        enter_waiting, exec_waiting >>
                      ELSE /\ arm_count' = IF c1 = armed_candidates THEN arm_count
                                           ELSE arm_count + 1
                           /\ IF ~c1[i].armed
                              THEN /\ armed_candidates' = c1
                                   /\ UNCHANGED << pair_trade_times, enter_waiting,
                                                   exec_waiting >>
                              ELSE IF position_lock # "free"
                              THEN /\ exec_waiting[i] < MaxScans
                                   /\ armed_candidates' = c1
                                   /\ exec_waiting' = [exec_waiting EXCEPT ![i] = @ + 1]
                                   /\ UNCHANGED << pair_trade_times, enter_waiting >>
                              ELSE /\ ApplyExec(c1, i, conf, pd)
                                   /\ UNCHANGED exec_waiting
    /\ UNCHANGED << ws, setup_eval, exec_eval, bar_aggregators, tick_log, trade_log, now, active_position, position_lock, usdt_balance,
                    risk, mon, enter_run, orders, halted >>

\* The updates of a market whose prices stay close to 100.00, with the bar
\* history passing or failing the setup filters.
HandleBBO == HandleBBOFrom(Books, BOOLEAN)

\* A confirmation scan that waited for the lock gets it and runs its pass.
ExecResume ==
    /\ ~halted
    /\ position_lock = "free"
    /\ \E i \in Insts, conf \in ConfChoices :
          /\ exec_waiting[i] > 0
          /\ exec_waiting' = [exec_waiting EXCEPT ![i] = @ - 1]
          /\ ApplyExec(armed_candidates, i, conf, pairs_data[i])
    /\ UNCHANGED << ws, setup_eval, exec_eval, bar_aggregators, tick_log, trade_log, now, pairs_data, arm_count, active_position, position_lock,
                    usdt_balance, risk, enter_run, mon, orders, halted >>

\* -------------------------------------------------------- enter_position
\* An entry task that does not look at active_position.
EnterSkips_Never(pos) == FALSE

\* "if self.active_position: return" at the top of the critical section.
EnterSkips(pos) == pos.state # "ABSENT"

\* The task gets the lock and tests active_position; no await in between.
EnterAcquire ==
    /\ ~halted
    /\ position_lock = "free"
    /\ \E t \in enter_waiting :
          /\ enter_waiting' = enter_waiting \ {t}
          /\ IF EnterSkips(active_position)
             THEN UNCHANGED << position_lock, enter_run >>
             ELSE /\ position_lock' = "enter"
                  /\ enter_run' = [NoRun EXCEPT !.pc = "balance", !.inst = t.inst,
                                                !.cand = t.cand, !.atr = t.atr]
    /\ UNCHANGED << ws, setup_eval, exec_eval, bar_aggregators, tick_log, trade_log, now, pairs_data, armed_candidates, arm_count, active_position,
                    usdt_balance, risk, pair_trade_times, exec_waiting,
                    mon, orders, halted >>

\* await update_balance() returns: the balance is the reported one, or the
\* old one when the query fails; then the balance test.
EnterBalance ==
    /\ ~halted
    /\ enter_run.pc = "balance"
    /\ \E bal \in BalanceChoices \cup {usdt_balance} :
          /\ usdt_balance' = bal
          /\ IF bal < BASE_ORDER_NOTIONAL_USDT
             THEN /\ enter_run' = NoRun
                  /\ position_lock' = "free"
             ELSE /\ enter_run' = [enter_run EXCEPT !.pc = "submit"]
                  /\ UNCHANGED position_lock
    /\ UNCHANGED << ws, setup_eval, exec_eval, bar_aggregators, tick_log, trade_log, now, pairs_data, armed_candidates, arm_count, active_position,
                    risk, pair_trade_times, exec_waiting, enter_waiting,
                    mon, orders, halted >>

\* OrderManager.place_order_with_tpsl at the exchange: the entry order is
\* accepted (it is live from here on, with or without an attached TP/SL
\* algo) or refused.  The answer has not reached enter_position yet.
PlaceOrderWithTpsl(inst, accept, with_algo) ==
    IF accept /\ Len(orders) < MaxOrders
    THEN [ orders |-> Append(orders, [inst |-> inst, st |-> "live",
                                      algo |-> IF with_algo THEN "live" ELSE "none",
                                      px |-> 0, sz |-> 0, fee |-> 0,
                                      apx |-> 0, afee |-> 0]),
           ord |-> Len(orders) + 1,
           algo |-> IF with_algo THEN Len(orders) + 1 ELSE 0,
           error |-> FALSE ]
    ELSE [ orders |-> orders, ord |-> 0, algo |-> 0, error |-> TRUE ]

EnterSubmit ==
    /\ ~halted
    /\ enter_run.pc = "submit"
    /\ \E accept \in BOOLEAN, with_algo \in BOOLEAN :
          LET res == PlaceOrderWithTpsl(enter_run.inst, accept, with_algo)
          IN  /\ orders' = res.orders
              /\ enter_run' = [enter_run EXCEPT !.pc = IF res.error THEN "error" ELSE "accepted",
                                                !.ord = res.ord, !.algo = res.algo]
    /\ UNCHANGED << ws, setup_eval, exec_eval, bar_aggregators, tick_log, trade_log, now, pairs_data, armed_candidates, arm_count, active_position,
                    position_lock, usdt_balance, risk, pair_trade_times,
                    exec_waiting, enter_waiting, mon, halted >>

\* The Position enter_position builds from the signal and the answer.
NewPosition(run, t) ==
    [NoPosition EXCEPT !.state = "PENDING_ENTRY", !.inst_id = run.inst,
                       !.entry_order_id = run.ord, !.attach_algo_id = run.algo,
                       !.cand = run.cand, !.atr = run.atr, !.time = t]

\* An entry task that builds the Position whatever the submission answered.
EnterCommit_Always(run, t) == NewPosition(run, t)

\* What enter_position commits when the submission call has returned.
EnterCommit(run, t) == IF run.pc = "error" THEN active_position ELSE NewPosition(run, t)

EnterReturn ==
    /\ ~halted
    /\ enter_run.pc \in {"error", "accepted"}
    /\ active_position' = EnterCommit(enter_run, now)
    /\ enter_run' = NoRun
    /\ position_lock' = "free"
    /\ UNCHANGED << ws, setup_eval, exec_eval, bar_aggregators, tick_log, trade_log, now, pairs_data, armed_candidates, arm_count, usdt_balance,
                    risk, pair_trade_times, exec_waiting, enter_waiting,
                    mon, orders, halted >>

\* ------------------------------------------------------- finalize_trade
\* pnl_pct of finalize_trade: (pnl_usdt / entry_notional) * 100, or 0 when the
\* notional is not positive.  The Decimal quotient is kept as the fraction
\* num / den (percent).
PnlPct(pnl_usdt, entry_notional) ==
    IF entry_notional > 0
    THEN [num |-> pnl_usdt * 100, den |-> entry_notional]
    ELSE [num |-> 0, den |-> 1]

\* A finalize_trade whose P&L leaves the fees out.
FinalizeTrade_Gross(pos, r, ptt, t) ==
    IF pos.state = "ABSENT" \/ pos.entry_price = 0 \/ pos.exit_price = 0
    THEN [pos |-> NoPosition, risk |-> r, ptt |-> ptt, logged |-> << >>]
    ELSE LET entry_notional == pos.entry_price * pos.entry_size
             pnl_usdt == (pos.exit_price - pos.entry_price) * pos.entry_size
         IN  [ pos  |-> NoPosition,
               risk |-> RecordTradeRisk(r, pnl_usdt, t),
               ptt  |-> RecordTradeTimes(ptt, pos.inst_id, t),
               logged |-> << [pair |-> pos.inst_id, entry_price |-> pos.entry_price,
                              entry_size |-> pos.entry_size, entry_fee |-> pos.entry_fee,
                              exit_price |-> pos.exit_price, exit_fee |-> pos.exit_fee,
                              exit_type |-> pos.exit_type,
                              pnl_usdt |-> pnl_usdt,
                              pnl_pct |-> PnlPct(pnl_usdt, entry_notional)] >> ]

\* finalize_trade on position pos: the position is reset; the trade is
\* logged (logged: the rows written) and recorded unless the entry or the
\* exit price is missing.
FinalizeTrade(pos, r, ptt, t) ==
    IF pos.state = "ABSENT" \/ pos.entry_price = 0 \/ pos.exit_price = 0
    THEN [pos |-> NoPosition, risk |-> r, ptt |-> ptt, logged |-> << >>]
    ELSE LET entry_notional == pos.entry_price * pos.entry_size
             pnl_usdt == (pos.exit_price - pos.entry_price) * pos.entry_size
                         - (pos.entry_fee + pos.exit_fee)
         IN  [ pos  |-> NoPosition,
               risk |-> RecordTradeRisk(r, pnl_usdt, t),
               ptt  |-> RecordTradeTimes(ptt, pos.inst_id, t),
               logged |-> << [pair |-> pos.inst_id, entry_price |-> pos.entry_price,
                              entry_size |-> pos.entry_size, entry_fee |-> pos.entry_fee,
                              exit_price |-> pos.exit_price, exit_fee |-> pos.exit_fee,
                              exit_type |-> pos.exit_type,
                              pnl_usdt |-> pnl_usdt,
                              pnl_pct |-> PnlPct(pnl_usdt, entry_notional)] >> ]

\* ------------------------------------------------ handle_account_update
IsEntryFill(pos, e) == e.ordId = pos.entry_order_id /\ e.state = "filled"

\* A handler that takes any algo fill for the exit of the Position.
IsTpslFill_AnyAlgo(pos, e) == e.algoId # 0

IsTpslFill(pos, e) == pos.attach_algo_id # 0 /\ e.algoId = pos.attach_algo_id
IsManualExitFill(pos, e) ==
    pos.exit_order_id # 0 /\ e.ordId = pos.exit_order_id /\ e.state = "filled"

\* An entry-fill branch that does not look at the state.
EntryFillApplies_AnyState(pos, e) == IsEntryFill(pos, e)

\* The entry-fill branch applies to a position in this state only.
EntryFillApplies(pos, e) == IsEntryFill(pos, e) /\ pos.state = "PENDING_ENTRY"

\* The exit-fill branch applies to a position in this state only.
ExitFillApplies(pos, e) ==
    (IsTpslFill(pos, e) \/ IsManualExitFill(pos, e)) /\ pos.state = "OPEN"

\* An entry-fill branch that leaves the peak unset.
EntryFilled_NoPeak(pos, e, t) ==
    [pos EXCEPT !.entry_price = e.px, !.entry_size = e.sz,
                !.entry_fee = Abs(e.fee), !.state = "OPEN", !.time = t]

\* The fields the entry-fill branch stores.
EntryFilled(pos, e, t) ==
    [pos EXCEPT !.entry_price = e.px, !.entry_size = e.sz,
                !.entry_fee = Abs(e.fee), !.state = "OPEN", !.time = t,
                !.peak_price = e.px]

\* An exit-fill branch that does not store the price of the event.
ExitFilled_NoPrice(pos, e) ==
    [pos EXCEPT !.exit_fee = pos.exit_fee + Abs(e.fee),
                !.exit_type = IF pos.exit_type = "" THEN "TP/SL_HIT" ELSE pos.exit_type]

\* The fields the exit-fill branch stores before it finalizes.
ExitFilled(pos, e) ==
    [pos EXCEPT !.exit_price = e.px,
                !.exit_fee = pos.exit_fee + Abs(e.fee),
                !.exit_type = IF pos.exit_type = "" THEN "TP/SL_HIT" ELSE pos.exit_type]

\* One order update processed under the position lock.
HandleOrderUpdate(pos, e, r, ptt, t) ==
    LET same == [pos |-> pos, risk |-> r, ptt |-> ptt, logged |-> << >>]
    IN  IF pos.state = "ABSENT" THEN same
        ELSE IF e.instId # pos.inst_id THEN same
        ELSE IF EntryFillApplies(pos, e)
             THEN [same EXCEPT !.pos = EntryFilled(pos, e, t)]
        ELSE IF ExitFillApplies(pos, e)
             THEN FinalizeTrade(ExitFilled(pos, e), r, ptt, t)
        ELSE same

\* The updates the private channels can carry, given the exchange's orders.
OrderUpdates ==
    { [NoUpdate EXCEPT !.kind = "order", !.instId = orders[k].inst, !.ordId = k,
                       !.state = orders[k].st, !.px = orders[k].px,
                       !.sz = orders[k].sz, !.fee = orders[k].fee]
        : k \in {j \in 1..Len(orders) : orders[j].st = "filled"} }
    \cup
    { [NoUpdate EXCEPT !.kind = "order", !.instId = orders[k].inst, !.ordId = -k,
                       !.algoId = k, !.state = "filled", !.px = orders[k].apx,
                       !.sz = orders[k].sz, !.fee = orders[k].afee]
        : k \in {j \in 1..Len(orders) : orders[j].algo = "filled"} }

\* An order id and algo id the exchange has issued to someone else's order.
UnknownId == 99

\* Order and algo fills the engine has nothing to do with: an unknown id on
\* either instrument, or the id of one of its orders reported under the
\* other instrument.
StrayUpdates ==
    LET ids(i) == {UnknownId} \cup {j \in 1..Len(orders) : orders[j].inst # i}
        ord(i, k, f) ==
            [NoUpdate EXCEPT !.kind = "order", !.instId = i, !.ordId = k,
                             !.state = "filled", !.px = f.px, !.sz = f.sz, !.fee = f.fee]
        algo(i, k, f) ==
            [NoUpdate EXCEPT !.kind = "order", !.instId = i, !.ordId = -k, !.algoId = k,
                             !.state = "filled", !.px = f.px, !.sz = f.sz, !.fee = f.fee]
    IN  UNION { { ord(i, k, f) : k \in ids(i), f \in ExitFills }
                  \cup { algo(i, k, f) : k \in ids(i), f \in ExitFills } : i \in Insts }

AccountUpdates == { [NoUpdate EXCEPT !.kind = "account", !.bal = b] : b \in BalanceChoices }

\* WSManager.run (private) receives update e and awaits
\* handle_account_update: a balance update needs no lock; an order update is
\* processed once the position lock is free (what it carries, a filled
\* order, does not change while it waits).
HandleUpdate ==
    /\ ~halted
    /\ \E e \in OrderUpdates \cup StrayUpdates \cup AccountUpdates :
          IF e.kind = "account"
          THEN /\ usdt_balance' = e.bal
               /\ UNCHANGED << active_position, risk, pair_trade_times, trade_log >>
          ELSE /\ position_lock = "free"
               /\ LET out == HandleOrderUpdate(active_position, e, risk,
                                               pair_trade_times, now)
                  IN  /\ active_position' = out.pos
                      /\ risk' = out.risk
                      /\ pair_trade_times' = out.ptt
                      /\ trade_log' = trade_log \o out.logged
               /\ UNCHANGED usdt_balance
    /\ UNCHANGED << ws, setup_eval, exec_eval, bar_aggregators, tick_log, now, pairs_data, armed_candidates,
                    arm_count, position_lock, exec_waiting, enter_waiting,
                    enter_run, mon, orders, halted >>

\* ------------------------------------------------------------- exchange
\* The exchange fills a live entry order.
ExchFill ==
    /\ ~halted
    /\ \E k \in 1..Len(orders), f \in EntryFills :
          /\ orders[k].st = "live"
          /\ orders' = [orders EXCEPT ![k].st = "filled", ![k].px = f.px,
                                      ![k].sz = f.sz, ![k].fee = f.fee]
    /\ UNCHANGED << ws, setup_eval, exec_eval, bar_aggregators, tick_log, trade_log, now, pairs_data, armed_candidates, arm_count, active_position,
                    position_lock, usdt_balance, risk, pair_trade_times,
                    exec_waiting, enter_waiting, enter_run, mon, halted >>

\* The attached TP/SL algo of a filled entry triggers and sells.
ExchAlgoFillFrom(fills) ==
    /\ ~halted
    /\ \E k \in 1..Len(orders), f \in fills :
          /\ orders[k].st = "filled"
          /\ orders[k].algo = "live"
          /\ orders' = [orders EXCEPT ![k].algo = "filled", ![k].apx = f.px,
                                      ![k].afee = f.fee]
    /\ UNCHANGED << ws, setup_eval, exec_eval, bar_aggregators, tick_log, trade_log, now, pairs_data, armed_candidates, arm_count, active_position,
                    position_lock, usdt_balance, risk, pair_trade_times,
                    exec_waiting, enter_waiting, enter_run, mon, halted >>

ExchAlgoFill == ExchAlgoFillFrom(ExitFills)

\* OrderManager.cancel_algo_order at the exchange: ok cancels a live algo.
CancelAlgoAt(ords, k, ok) ==
    IF ok /\ k \in 1..Len(ords) /\ ords[k].algo = "live"
    THEN [ords EXCEPT ![k].algo = "canceled"]
    ELSE ords

\* POST /api/v5/trade/cancel-order at the exchange: ok cancels a live order.
CancelOrderAt(ords, k, ok) ==
    IF ok /\ k \in 1..Len(ords) /\ ords[k].st = "live"
    THEN [ords EXCEPT ![k].st = "canceled",
                      ![k].algo = IF ords[k].algo = "live" THEN "canceled" ELSE ords[k].algo]
    ELSE ords

\* ----------------------------------------------------- monitor_position
\* force_close_position up to its first await: the state test and CLOSING.
ForceCloseStart(pos) == IF pos.state = "OPEN" THEN [pos EXCEPT !.state = "CLOSING"] ELSE pos

\* Where force_close_position suspends first.
ForceClosePc(pos) ==
    IF pos.state # "OPEN" THEN "sleep"
    ELSE IF pos.attach_algo_id # 0 THEN "fc_cancel" ELSE "fc_sleep"

\* A trailing test that needs the price strictly under the stop level.
TrailingHit_Strict(pos) ==
    /\ pos.trailing_active
    /\ pos.current * 10000 <
         pos.peak_price * 10000
         - Max(pos.atr * TRAILING_DISTANCE_ATR_MULTIPLIER * 10000,
               pos.entry_price * TRAILING_DISTANCE_MIN_BPS)

\* The trailing test: price at or under peak minus the trail distance
\* (both sides times 10000).
TrailingHit(pos) ==
    /\ pos.trailing_active
    /\ pos.current * 10000 <=
         pos.peak_price * 10000
         - Max(pos.atr * TRAILING_DISTANCE_ATR_MULTIPLIER * 10000,
               pos.entry_price * TRAILING_DISTANCE_MIN_BPS)

\* The activation test: price at or over entry * (1 + bps/10000).
TrailingActivates(pos) ==
    /\ ~pos.trailing_active
    /\ pos.current * 10000 >= pos.entry_price * (10000 + TRAILING_ACTIVATION_BPS)

\* A monitor that stores the last price as the peak.
NewPeak_Last(pos, mid) == mid

\* The peak the monitor stores for price mid.
NewPeak(pos, mid) ==
    LET p0 == IF pos.peak_price = 0 THEN pos.entry_price ELSE pos.peak_price
    IN  IF mid > p0 THEN mid ELSE p0

\* The monitor has the lock and looks at the position; the result is the
\* position and the await it stops at ("sleep": back to the top of the loop).
MonitorLook(pos, t) ==
    LET mid  == pairs_data[pos.inst_id].mid
        stay == [pos |-> pos, pc |-> "sleep", reason |-> ""]
    IN  IF pos.state = "CLOSING_FAILED" THEN stay
        ELSE IF pos.state = "PENDING_ENTRY" /\ t - pos.time > ORDER_PENDING_TIMEOUT
             THEN [stay EXCEPT !.pc = "query"]
        ELSE IF pos.state # "OPEN" THEN stay
        ELSE IF mid = 0 THEN stay
        ELSE LET p1 == [pos EXCEPT !.current = mid]
             IN  IF t - pos.time > MAX_POSITION_HOLD_SECONDS
                 THEN [pos |-> ForceCloseStart(p1), pc |-> ForceClosePc(p1),
                       reason |-> "MAX_HOLD_TIME"]
                 ELSE IF pos.entry_price = 0 THEN [stay EXCEPT !.pos = p1]
                 ELSE LET p2 == [p1 EXCEPT !.peak_price = NewPeak(p1, mid)]
                          p3 == [p2 EXCEPT !.trailing_active = TRUE]
                      IN  IF TrailingActivates(p2) /\ p2.attach_algo_id # 0
                          THEN [pos |-> p3, pc |-> "trail_cancel", reason |-> ""]
                          ELSE LET p4 == IF TrailingActivates(p2) THEN p3 ELSE p2
                               IN  IF TrailingHit(p4)
                                   THEN [pos |-> ForceCloseStart(p4), pc |-> ForceClosePc(p4),
                                         reason |-> "TRAILING_STOP"]
                                   ELSE [stay EXCEPT !.pos = p4]

\* One poll: after the sleep the monitor takes the lock and looks.
MonitorPoll ==
    /\ ~halted
    /\ mon.pc = "sleep"
    /\ position_lock = "free"
    /\ HasPosition
    /\ LET out == MonitorLook(active_position, now)
       IN  /\ active_position' = out.pos
           /\ mon' = [pc |-> out.pc, reason |-> out.reason]
           /\ position_lock' = IF out.pc = "sleep" THEN "free" ELSE "monitor"
    /\ UNCHANGED << ws, setup_eval, exec_eval, bar_aggregators, tick_log, trade_log, now, pairs_data, armed_candidates, arm_count, usdt_balance,
                    risk, pair_trade_times, exec_waiting, enter_waiting,
                    enter_run, orders, halted >>

\* What the monitor does with the answer of the order-status query: nothing
\* on an error; handle_account_update on a filled order, which waits for the
\* lock the monitor holds; else the cancels.
AfterQuery(pos, ok, st) ==
    IF ~ok THEN "sleep"
    ELSE IF st = "filled" THEN "deadlock"
    ELSE IF pos.attach_algo_id # 0 THEN "cancel_algo" ELSE "cancel_order"

MonitorQuery ==
    /\ ~halted
    /\ mon.pc = "query"
    /\ \E ok \in BOOLEAN :
          LET pc2 == AfterQuery(active_position, ok, orders[active_position.entry_order_id].st)
          IN  /\ mon' = [mon EXCEPT !.pc = pc2]
              /\ position_lock' = IF pc2 = "sleep" THEN "free" ELSE "monitor"
    /\ UNCHANGED << ws, setup_eval, exec_eval, bar_aggregators, tick_log, trade_log, now, pairs_data, armed_candidates, arm_count, active_position,
                    usdt_balance, risk, pair_trade_times, exec_waiting,
                    enter_waiting, enter_run, orders, halted >>

\* The timeout path's cancel_algo_order returns.
MonitorCancelAlgo ==
    /\ ~halted
    /\ mon.pc = "cancel_algo"
    /\ \E ok \in BOOLEAN :
          orders' = CancelAlgoAt(orders, active_position.attach_algo_id, ok)
    /\ mon' = [mon EXCEPT !.pc = "cancel_order"]
    /\ UNCHANGED << ws, setup_eval, exec_eval, bar_aggregators, tick_log, trade_log, now, pairs_data, armed_candidates, arm_count, active_position,
                    position_lock, usdt_balance, risk, pair_trade_times,
                    exec_waiting, enter_waiting, enter_run, halted >>

\* A timeout path that discards the position only when the cancel went through.
TimeoutDiscard_IfCancelled(pos, ok) == IF ok THEN NoPosition ELSE pos

\* The position the timeout path leaves once cancel-order has returned.
TimeoutDiscard(pos, ok) == NoPosition

MonitorCancelOrder ==
    /\ ~halted
    /\ mon.pc = "cancel_order"
    /\ \E ok \in BOOLEAN :
          /\ orders' = CancelOrderAt(orders, active_position.entry_order_id, ok)
          /\ active_position' = TimeoutDiscard(active_position, ok)
    /\ mon' = MonIdle
    /\ position_lock' = "free"
    /\ UNCHANGED << ws, setup_eval, exec_eval, bar_aggregators, tick_log, trade_log, now, pairs_data, armed_candidates, arm_count, usdt_balance,
                    risk, pair_trade_times, exec_waiting, enter_waiting,
                    enter_run, halted >>

\* Trailing has just activated: the cancel of the attached algo returns, the
\* id is dropped, then the trailing test.
MonitorTrailCancel ==
    /\ ~halted
    /\ mon.pc = "trail_cancel"
    /\ \E ok \in BOOLEAN :
          orders' = CancelAlgoAt(orders, active_position.attach_algo_id, ok)
    /\ LET p1 == [active_position EXCEPT !.attach_algo_id = 0]
       IN  IF TrailingHit(p1)
           THEN /\ active_position' = ForceCloseStart(p1)
                /\ mon' = [pc |-> ForceClosePc(p1), reason |-> "TRAILING_STOP"]
                /\ UNCHANGED position_lock
           ELSE /\ active_position' = p1
                /\ mon' = MonIdle
                /\ position_lock' = "free"
    /\ UNCHANGED << ws, setup_eval, exec_eval, bar_aggregators, tick_log, trade_log, now, pairs_data, armed_candidates, arm_count, usdt_balance,
                    risk, pair_trade_times, exec_waiting, enter_waiting,
                    enter_run, halted >>

\* force_close_position: its cancel_algo_order returns.
MonitorFcCancel ==
    /\ ~halted
    /\ mon.pc = "fc_cancel"
    /\ \E ok \in BOOLEAN :
          orders' = CancelAlgoAt(orders, active_position.attach_algo_id, ok)
    /\ mon' = [mon EXCEPT !.pc = "fc_sleep"]
    /\ UNCHANGED << ws, setup_eval, exec_eval, bar_aggregators, tick_log, trade_log, now, pairs_data, armed_candidates, arm_count, active_position,
                    position_lock, usdt_balance, risk, pair_trade_times,
                    exec_waiting, enter_waiting, enter_run, halted >>

\* Positional arguments force_close_position passes to place_market_order
\* (inst_id, "sell", size_to_sell) and those its signature requires
\* (inst_id, side, amount, cl_ord_id).
PlaceMarketOrderArgs == 3
PlaceMarketOrderParams == 4

\* The call of place_market_order: Python raises TypeError before the body
\* runs when a required argument is missing.
PlaceMarketOrderCall == IF PlaceMarketOrderArgs < PlaceMarketOrderParams THEN "TypeError" ELSE "called"

\* force_close_position after its sleep(0.2), for submission outcome ok:
\* the position and where the monitor is next.
ForceCloseSubmit(pos, reason, ok, ord) ==
    IF pos.entry_size = 0 THEN [pos |-> NoPosition, pc |-> "sleep"]
    ELSE IF PlaceMarketOrderCall = "TypeError" THEN [pos |-> pos, pc |-> "crashed"]
    ELSE IF ~ok THEN [pos |-> [pos EXCEPT !.state = "CLOSING_FAILED"], pc |-> "sleep"]
    ELSE [pos |-> [pos EXCEPT !.exit_order_id = ord, !.exit_type = reason], pc |-> "sleep"]

\* The sleep of force_close_position is over.  An exception leaves the
\* async with (the lock is released) and ends the monitor task.
MonitorFcSubmit ==
    /\ ~halted
    /\ mon.pc = "fc_sleep"
    /\ \E ok \in BOOLEAN :
          LET out == ForceCloseSubmit(active_position, mon.reason, ok, -(MaxOrders + 1))
          IN  /\ active_position' = out.pos
              /\ mon' = [pc |-> out.pc, reason |-> ""]
    /\ position_lock' = "free"
    /\ UNCHANGED << ws, setup_eval, exec_eval, bar_aggregators, tick_log, trade_log, now, pairs_data, armed_candidates, arm_count, usdt_balance,
                    risk, pair_trade_times, exec_waiting, enter_waiting,
                    enter_run, orders, halted >>

\* ------------------------------------------------------------------ main
\* The monitor's exception leaves run_tasks' gather and main's gather;
\* main logs MAIN_FATAL, stops the sockets and cancels every task.
Shutdown ==
    /\ ~halted
    /\ mon.pc = "crashed"
    /\ halted' = TRUE
    /\ UNCHANGED << ws, setup_eval, exec_eval, bar_aggregators, tick_log, trade_log, now, pairs_data, armed_candidates, arm_count, active_position,
                    position_lock, usdt_balance, risk, pair_trade_times,
                    exec_waiting, enter_waiting, enter_run, mon, orders >>

Next ==
    \/ Tick
    \/ HandleBBO
    \/ ExecResume
    \/ EnterAcquire
    \/ EnterBalance
    \/ EnterSubmit
    \/ EnterReturn
    \/ HandleUpdate
    \/ ExchFill
    \/ ExchAlgoFill
    \/ MonitorPoll
    \/ MonitorQuery
    \/ MonitorCancelAlgo
    \/ MonitorCancelOrder
    \/ MonitorTrailCancel
    \/ MonitorFcCancel
    \/ MonitorFcSubmit
    \/ Shutdown

Spec == Init /\ [][Next]_vars

\* The event loop runs every task that is ready: the monitor wakes from its
\* sleep and takes the lock when it is free, and each collaborator call a
\* lock holder awaits returns (the HTTP client has a timeout).
FairSpec ==
    /\ Spec
    /\ WF_vars(MonitorPoll)
    /\ WF_vars(MonitorQuery)
    /\ WF_vars(MonitorCancelAlgo)
    /\ WF_vars(MonitorCancelOrder)
    /\ WF_vars(MonitorTrailCancel)
    /\ WF_vars(MonitorFcCancel)
    /\ WF_vars(MonitorFcSubmit)
    /\ WF_vars(EnterBalance)
    /\ WF_vars(EnterSubmit)
    /\ WF_vars(EnterReturn)

\* ------------------------------------------- the monitor on a moving price
\* Mid prices of a market that moves around the trailing thresholds of an
\* entry at 100.00, and the ATR values a candidate may carry.
TrailMids == {10005, 10006, 10014, 10015, 10020}
TrailAtrs == {5, 12}

\* Top-of-book updates with those mid prices (spread 0.02).
TrailBooks == { [ok |-> TRUE, bid |-> m - 1, ask |-> m + 1] : m \in TrailMids }

\* The engine right after the fill of its first entry order has been
\* handled: candidate 1 of A-USDT was dispatched at the snapshot 99.98 /
\* 100.02, the order was accepted with or without an attached algo, and its
\* fill report has made the Position OPEN.
TrailInit ==
    /\ now = StartTime
    /\ pairs_data = [i \in Insts |->
                        IF i = "A-USDT"
                        THEN [has |-> TRUE, best_bid |-> 9998, best_ask |-> 10002,
                              mid |-> 10000]
                        ELSE NoData]
    /\ armed_candidates = [i \in Insts |-> NoCandidate]
    /\ arm_count = 1
    /\ \E atr \in TrailAtrs, algo \in {0, 1}, f \in EntryFills :
          LET run == [NoRun EXCEPT !.inst = "A-USDT", !.cand = 1, !.atr = atr,
                                   !.ord = 1, !.algo = algo]
              e   == [NoUpdate EXCEPT !.kind = "order", !.instId = "A-USDT",
                                      !.ordId = 1, !.state = "filled", !.px = f.px,
                                      !.sz = f.sz, !.fee = f.fee]
          IN  /\ active_position = EntryFilled(NewPosition(run, StartTime), e, StartTime)
              /\ orders = << [inst |-> "A-USDT", st |-> "filled",
                              algo |-> IF algo = 0 THEN "none" ELSE "live",
                              px |-> f.px, sz |-> f.sz, fee |-> f.fee,
                              apx |-> 0, afee |-> 0] >>
    /\ position_lock = "free"
    /\ usdt_balance = 100
    /\ risk = [daily_pnl |-> 0, consecutive_losses |-> 0,
               last_trade_time |-> 0, last_loss_time |-> 0]
    /\ pair_trade_times = [i \in Insts |-> << >>]
    /\ exec_waiting = [i \in Insts |-> 0]
    /\ enter_waiting = {}
    /\ enter_run = NoRun
    /\ mon = MonIdle
    /\ trade_log = << >>
    /\ bar_aggregators = [i \in Insts |-> NewAggregator]
    /\ tick_log = << >>
    /\ exec_eval = NoEval
    /\ setup_eval = NoSetup
    /\ ws = NoWs
    /\ halted = FALSE

\* handle_bbo_data on the moving market, the bar history never passing the
\* setup filters.
TrailBBO == HandleBBOFrom(TrailBooks, {FALSE})

TrailNext ==
    \/ Tick
    \/ TrailBBO
    \/ HandleUpdate
    \/ ExchAlgoFill
    \/ MonitorPoll
    \/ MonitorTrailCancel
    \/ MonitorFcCancel
    \/ MonitorFcSubmit
    \/ Shutdown

TrailSpec == TrailInit /\ [][TrailNext]_vars

\* ------------------------------------------ a feed with anomalous updates
\* The updates of Books and one with both sides present at price 0 (its mid
\* price is not positive).
AnomalousBooks == Books \cup { [ok |-> TRUE, bid |-> 0, ask |-> 0] }

AnomalousBBO == HandleBBOFrom(AnomalousBooks, BOOLEAN)

\* The engine on that feed: every task of Next, handle_bbo_data receiving
\* the anomalous updates too.
AnomalousNext ==
    \/ Tick
    \/ AnomalousBBO
    \/ ExecResume
    \/ EnterAcquire
    \/ EnterBalance
    \/ EnterSubmit
    \/ EnterReturn
    \/ HandleUpdate
    \/ ExchFill
    \/ ExchAlgoFill
    \/ MonitorPoll
    \/ MonitorQuery
    \/ MonitorCancelAlgo
    \/ MonitorCancelOrder
    \/ MonitorTrailCancel
    \/ MonitorFcCancel
    \/ MonitorFcSubmit
    \/ Shutdown

AnomalousSpec == Init /\ [][AnomalousNext]_vars

\* ------------------------------------- scans of an instrument that is armed
\* The candidate armed on A-USDT some seconds ago (younger than the
\* timeout).
EarlierCandidate == [armed |-> TRUE, id |-> 1, time |-> StartTime - 5, atr |-> 5]

\* The engine after that arming: the snapshot of A-USDT is the one of the
\* update that armed it.
SetupInit ==
    /\ now = StartTime
    /\ pairs_data = [i \in Insts |->
                        IF i = "A-USDT"
                        THEN [has |-> TRUE, best_bid |-> 9998, best_ask |-> 10002,
                              mid |-> 10000]
                        ELSE NoData]
    /\ armed_candidates = [i \in Insts |->
                              IF i = "A-USDT" THEN EarlierCandidate ELSE NoCandidate]
    /\ arm_count = 1
    /\ active_position = NoPosition
    /\ position_lock = "free"
    /\ usdt_balance = 0
    /\ risk = [daily_pnl |-> 0, consecutive_losses |-> 0,
               last_trade_time |-> 0, last_loss_time |-> 0]
    /\ pair_trade_times = [i \in Insts |-> << >>]
    /\ exec_waiting = [i \in Insts |-> 0]
    /\ enter_waiting = {}
    /\ enter_run = NoRun
    /\ mon = MonIdle
    /\ orders = << >>
    /\ trade_log = << >>
    /\ bar_aggregators = [i \in Insts |-> NewAggregator]
    /\ tick_log = << >>
    /\ exec_eval = NoEval
    /\ setup_eval = NoSetup
    /\ ws = NoWs
    /\ halted = FALSE

\* Updates on which the bar history passes every setup filter.
SetupBBO == HandleBBOFrom(Books, {TRUE})

\* Every task of Next, each update finding a setup.
SetupNext ==
    \/ Tick
    \/ SetupBBO
    \/ ExecResume
    \/ EnterAcquire
    \/ EnterBalance
    \/ EnterSubmit
    \/ EnterReturn
    \/ HandleUpdate
    \/ ExchFill
    \/ ExchAlgoFill
    \/ MonitorPoll
    \/ MonitorQuery
    \/ MonitorCancelAlgo
    \/ MonitorCancelOrder
    \/ MonitorTrailCancel
    \/ MonitorFcCancel
    \/ MonitorFcSubmit
    \/ Shutdown

SetupSpec == SetupInit /\ [][SetupNext]_vars

\* -------------------------------------- the risk manager around one trade
\* Fields of a RiskManager that has recorded trades before: the day's P&L
\* (0.01 USDT), the run of losses, and the number of trades of each
\* instrument in the last hour.  The open trade will end 0.36 up or 0.44
\* down (ExitFills, less fees), which takes these to either side of the
\* daily-loss cap, the consecutive-loss cap and the hourly rate cap.
RiskDailyPnls == {0, -2956, -2955}
RiskLossRuns == {0, 3, 4}
RiskCountsA == {0, 6, 7}
RiskCountsB == {0, 8}

\* Seconds by which the clock advances when the risk manager is exercised.
RiskSteps == {1, 3600}

\* The times of n trades recorded 10 s apart, the last one at time last.
PastTrades(n, last) == [k \in 1..n |-> last - 10 * (n - k)]

\* The engine with an OPEN Position on A-USDT (as in TrailInit, with an
\* attached algo) after earlier trades: the last trade of A-USDT was
\* recorded 10 s ago, that of B-USDT 15 s ago; a run of losses ends with the
\* last trade.
RiskInit ==
    /\ now = StartTime
    /\ pairs_data = [i \in Insts |->
                        IF i = "A-USDT"
                        THEN [has |-> TRUE, best_bid |-> 9998, best_ask |-> 10002,
                              mid |-> 10000]
                        ELSE NoData]
    /\ armed_candidates = [i \in Insts |-> NoCandidate]
    /\ arm_count = 1
    /\ \E f \in EntryFills :
          LET run == [NoRun EXCEPT !.inst = "A-USDT", !.cand = 1, !.atr = 5,
                                   !.ord = 1, !.algo = 1]
              e   == [NoUpdate EXCEPT !.kind = "order", !.instId = "A-USDT",
                                      !.ordId = 1, !.state = "filled", !.px = f.px,
                                      !.sz = f.sz, !.fee = f.fee]
          IN  /\ active_position = EntryFilled(NewPosition(run, StartTime), e, StartTime)
              /\ orders = << [inst |-> "A-USDT", st |-> "filled", algo |-> "live",
                              px |-> f.px, sz |-> f.sz, fee |-> f.fee,
                              apx |-> 0, afee |-> 0] >>
    /\ position_lock = "free"
    /\ usdt_balance = 100
    /\ \E dp \in RiskDailyPnls, cl \in RiskLossRuns, na \in RiskCountsA, nb \in RiskCountsB :
          LET last == IF na > 0 THEN StartTime - 10
                      ELSE IF nb > 0 THEN StartTime - 15 ELSE 0
          IN  /\ cl <= na + nb
              /\ (na + nb = 0) => dp = 0
              /\ risk = [daily_pnl |-> dp, consecutive_losses |-> cl,
                         last_trade_time |-> last,
                         last_loss_time |-> IF cl > 0 THEN last ELSE 0]
              /\ pair_trade_times =
                    [i \in Insts |-> IF i = "A-USDT" THEN PastTrades(na, StartTime - 10)
                                                     ELSE PastTrades(nb, StartTime - 15)]
    /\ exec_waiting = [i \in Insts |-> 0]
    /\ enter_waiting = {}
    /\ enter_run = NoRun
    /\ mon = MonIdle
    /\ trade_log = << >>
    /\ bar_aggregators = [i \in Insts |-> NewAggregator]
    /\ tick_log = << >>
    /\ exec_eval = NoEval
    /\ setup_eval = NoSetup
    /\ ws = NoWs
    /\ halted = FALSE

RiskTick ==
    /\ ~halted
    /\ \E d \in RiskSteps :
          /\ IF d < HOUR_SEC
             THEN ((now - StartTime) % HOUR_SEC) + d <= MaxRiskTime
             ELSE now + d <= StartTime + MaxRiskHours * HOUR_SEC + MaxRiskTime
          /\ now' = now + d
    /\ UNCHANGED << ws, setup_eval, exec_eval, bar_aggregators, tick_log, trade_log, pairs_data, armed_candidates, arm_count, active_position,
                    position_lock, usdt_balance, risk, pair_trade_times,
                    exec_waiting, enter_waiting, enter_run, mon, orders, halted >>

\* A call of can_open_position(inst_id, 0): what it leaves in the manager.
RiskCheck ==
    /\ ~halted
    /\ \E i \in Insts :
          pair_trade_times' = CanOpenPrune(risk, pair_trade_times, i, 0, now)
    /\ UNCHANGED << ws, setup_eval, exec_eval, bar_aggregators, tick_log, trade_log, now, pairs_data, armed_candidates, arm_count,
                    active_position, position_lock, usdt_balance, risk,
                    exec_waiting, enter_waiting, enter_run, mon, orders, halted >>

\* The attached algo closes the trade at some time, the fill is handled
\* (finalize_trade records the trade), the clock runs on and
\* can_open_position is called.
RiskNext ==
    \/ RiskTick
    \/ ExchAlgoFill
    \/ HandleUpdate
    \/ RiskCheck

RiskSpec == RiskInit /\ [][RiskNext]_vars

\* ------------------------------------------- the settlement of one trade
\* Entry fills and TP/SL fills of the trade that is settled (prices and fees
\* in 0.01 USDT; the exchange reports fees as negative amounts): among them
\* an entry at 100.00, size 1, fee 0.10 and an exit at 101.00, fee 0.10; a
\* fill without a usable price is read as price 0 (safe_decimal).
PnlEntryFills == { [px |-> p, sz |-> z, fee |-> f] : p \in {10000, 9975}, z \in {1, 3},
                                                    f \in {0, -10} }
PnlExitFills == { [px |-> p, sz |-> 1, fee |-> f] : p \in {10100, 9960, 0}, f \in {0, -10} }

\* The engine with an OPEN Position on A-USDT whose entry filled as one of
\* PnlEntryFills, its attached algo live, no trade recorded so far.
PnlInit ==
    /\ now = StartTime
    /\ pairs_data = [i \in Insts |->
                        IF i = "A-USDT"
                        THEN [has |-> TRUE, best_bid |-> 9998, best_ask |-> 10002,
                              mid |-> 10000]
                        ELSE NoData]
    /\ armed_candidates = [i \in Insts |-> NoCandidate]
    /\ arm_count = 1
    /\ \E f \in PnlEntryFills :
          LET run == [NoRun EXCEPT !.inst = "A-USDT", !.cand = 1, !.atr = 5,
                                   !.ord = 1, !.algo = 1]
              e   == [NoUpdate EXCEPT !.kind = "order", !.instId = "A-USDT",
                                      !.ordId = 1, !.state = "filled", !.px = f.px,
                                      !.sz = f.sz, !.fee = f.fee]
          IN  /\ active_position = EntryFilled(NewPosition(run, StartTime), e, StartTime)
              /\ orders = << [inst |-> "A-USDT", st |-> "filled", algo |-> "live",
                              px |-> f.px, sz |-> f.sz, fee |-> f.fee,
                              apx |-> 0, afee |-> 0] >>
    /\ position_lock = "free"
    /\ usdt_balance = 100
    /\ risk = [daily_pnl |-> 0, consecutive_losses |-> 0, last_trade_time |-> 0,
               last_loss_time |-> 0]
    /\ pair_trade_times = [i \in Insts |-> << >>]
    /\ exec_waiting = [i \in Insts |-> 0]
    /\ enter_waiting = {}
    /\ enter_run = NoRun
    /\ mon = MonIdle
    /\ trade_log = << >>
    /\ bar_aggregators = [i \in Insts |-> NewAggregator]
    /\ tick_log = << >>
    /\ exec_eval = NoEval
    /\ setup_eval = NoSetup
    /\ ws = NoWs
    /\ halted = FALSE

PnlAlgoFill == ExchAlgoFillFrom(PnlExitFills)

\* The attached algo closes the trade and the fill is handled
\* (finalize_trade settles the trade).
PnlNext ==
    \/ PnlAlgoFill
    \/ HandleUpdate

PnlSpec == PnlInit /\ [][PnlNext]_vars

\* ------------------------------------------------------- BarAggregator
\* config.BAR_SAMPLING_SEC, in seconds.
BAR_SAMPLING_SEC == 1

RECURSIVE SumSeq(_)
SumSeq(q) == IF q = << >> THEN 0 ELSE Head(q) + SumSeq(Tail(q))

\* A deque that grows without limit.
DequeAppend_Unbounded(q, x, maxlen) == Append(q, x)

\* deque(maxlen = maxlen).append(x): at full length the oldest element goes.
DequeAppend(q, x, maxlen) ==
    IF Len(q) >= maxlen THEN Append(Tail(q), x) ELSE Append(q, x)

\* int(server_now / bar_period) * bar_period
BarBucket(server_now) == (server_now \div BAR_SAMPLING_SEC) * BAR_SAMPLING_SEC

\* An add_tick that closes a bar with the first price of the next one.
AddTick_LateClose(agg, max_bars, server_now, price, volume) ==
    LET bar_bucket == BarBucket(server_now)
        opens == ~agg.current_bar.has \/ bar_bucket > agg.current_bar_start
        closed == [start |-> agg.current_bar.start, o |-> agg.current_bar.o,
                   h |-> agg.current_bar.h, l |-> agg.current_bar.l,
                   c |-> price, vol |-> SumSeq(agg.trade_volumes)]
        cur == IF opens
               THEN [has |-> TRUE, start |-> bar_bucket, o |-> price, h |-> price,
                     l |-> price, c |-> price]
               ELSE agg.current_bar
        vols == IF opens THEN << >> ELSE agg.trade_volumes
    IN  [ bars |-> IF opens /\ agg.current_bar.has
                   THEN DequeAppend(agg.bars, closed, max_bars)
                   ELSE agg.bars,
          current_bar_start |-> IF opens THEN bar_bucket ELSE agg.current_bar_start,
          current_bar |-> [has |-> TRUE, start |-> bar_bucket, o |-> cur.o,
                           h |-> Max(cur.h, price), l |-> Min(cur.l, price),
                           c |-> price],
          trade_volumes |-> IF volume > 0 THEN Append(vols, volume) ELSE vols ]

\* BarAggregator.add_tick(price, volume) at clock reading server_now
\* (time.time() + time_offset), on an aggregator of capacity max_bars.
AddTick(agg, max_bars, server_now, price, volume) ==
    LET bar_bucket == BarBucket(server_now)
        opens == ~agg.current_bar.has \/ bar_bucket > agg.current_bar_start
        closed == [start |-> agg.current_bar.start, o |-> agg.current_bar.o,
                   h |-> agg.current_bar.h, l |-> agg.current_bar.l,
                   c |-> agg.current_bar.c, vol |-> SumSeq(agg.trade_volumes)]
        cur == IF opens
               THEN [has |-> TRUE, start |-> bar_bucket, o |-> price, h |-> price,
                     l |-> price, c |-> price]
               ELSE agg.current_bar
        vols == IF opens THEN << >> ELSE agg.trade_volumes
    IN  [ bars |-> IF opens /\ agg.current_bar.has
                   THEN DequeAppend(agg.bars, closed, max_bars)
                   ELSE agg.bars,
          current_bar_start |-> IF opens THEN bar_bucket ELSE agg.current_bar_start,
          current_bar |-> [has |-> TRUE, start |-> bar_bucket, o |-> cur.o,
                           h |-> Max(cur.h, price), l |-> Min(cur.l, price),
                           c |-> price],
          trade_volumes |-> IF volume > 0 THEN Append(vols, volume) ELSE vols ]

\* list(self.bars)[-n:] if n else list(self.bars)
GetBars(agg, n) ==
    IF n = 0 \/ n >= Len(agg.bars) THEN agg.bars
    ELSE SubSeq(agg.bars, Len(agg.bars) - n + 1, Len(agg.bars))

\* [bar[4] for bar in self.bars], the last n if n
GetCloses(agg, n) ==
    LET closes == [k \in 1..Len(agg.bars) |-> agg.bars[k].c]
    IN  IF n = 0 \/ n >= Len(closes) THEN closes
        ELSE SubSeq(closes, Len(closes) - n + 1, Len(closes))

\* ------------------------------------------- one aggregator under ticks
\* The instrument whose aggregator is followed, the prices (0.01 USDT) and
\* sizes of the ticks (a bbo tick has volume 0), and the seconds between
\* the clock readings of two ticks (time.time() is the wall clock: it can
\* be set back).
BarInst == "A-USDT"
BarPrices == {10000, 10002, 9999}
BarVolumes == {0, 2}
BarClockSteps == {-1, 0, 1, 2}

\* One call of add_tick (from handle_bbo_data with the mid price, or from
\* handle_trade_data with a trade's price and size), at its clock reading.
AddTickCall ==
    /\ ~halted
    /\ Len(tick_log) < MaxTicks
    /\ \E d \in BarClockSteps, p \in BarPrices, v \in BarVolumes :
          /\ now' = now + d
          /\ bar_aggregators' =
                [bar_aggregators EXCEPT
                    ![BarInst] = AddTick(@, MaxBars, now + d, p, v)]
          /\ tick_log' = Append(tick_log, [t |-> now + d, px |-> p, vol |-> v])
    /\ UNCHANGED << ws, setup_eval, exec_eval, trade_log, pairs_data, armed_candidates, arm_count,
                    active_position, position_lock, usdt_balance, risk,
                    pair_trade_times, exec_waiting, enter_waiting, enter_run,
                    mon, orders, halted >>

BarNext == AddTickCall

BarSpec == Init /\ [][BarNext]_vars

\* -------------------------------------------------- confirmation signals
\* config.ZSCORE_THRESHOLD (0.10, in hundredths), config.VOLUME_AVG_WINDOW,
\* config.VOLUME_SPIKE_WINDOW, config.VOLUME_SPIKE_MULTIPLIER (1.1, in
\* tenths), config.MIN_IMBALANCE and config.MAX_IMBALANCE (hundredths),
\* config.MIN_BID_DEPTH_USDT.
ZSCORE_THRESHOLD_E2 == 10
VOLUME_AVG_WINDOW == 30
VOLUME_SPIKE_WINDOW == 3
VOLUME_SPIKE_MULTIPLIER_E1 == 11
MIN_IMBALANCE_E2 == 105
MAX_IMBALANCE_E2 == 2000
MIN_BID_DEPTH_USDT == 400

\* compute_zscore returns fewer than this many returns unscored.
ZSCORE_MIN_RETURNS == 5

\* A z-score is kept as num / sqrt(rad), rad > 0; this one is 0.0.
ZeroZ == [num |-> 0, rad |-> 1]

\* What the body of compute_zscore computes when it runs through: with n
\* returns of sum S and sum of squares Q, mean = S / n, var = (n Q - S S) /
\* n^2 and (arr[-1] - mean) / std = (n arr[-1] - S) / sqrt(n Q - S S); with
\* var = 0 the returns are all equal and the numerator is 0.
ZscoreOf(returns) ==
    LET n == Len(returns)
        S == SumSeq(returns)
        Q == SumSeq([k \in 1..n |-> returns[k] * returns[k]])
    IN  IF n * Q - S * S > 0
        THEN [num |-> n * returns[n] - S, rad |-> n * Q - S * S]
        ELSE [num |-> n * returns[n] - S, rad |-> 1]

\* In "mean, var = sum(arr) / len(arr), sum((x - mean) ** 2 for x in arr) /
\* len(arr)" the tuple on the right is evaluated before either name is
\* bound: the generator reads the local mean while it has no value.
MeanBoundWhenRead == FALSE

\* A compute_zscore that scores a window of any length.
ComputeZscore_AnyLength(returns) ==
    IF returns = << >> THEN ZeroZ ELSE ZscoreOf(returns)

\* compute_zscore(returns): 0.0 for a short window; else the body runs
\* inside try, and the NameError of reading the unbound mean is caught by
\* the bare except, which returns 0.0.
ComputeZscore(returns) ==
    IF Len(returns) < ZSCORE_MIN_RETURNS THEN ZeroZ
    ELSE IF MeanBoundWhenRead THEN ZscoreOf(returns)
    ELSE ZeroZ

\* abs(z) >= thr, thr in hundredths.
AbsAtLeast(z, thr_e2) == z.num * z.num * 10000 >= thr_e2 * thr_e2 * z.rad

\* The momentum signal on the log-returns rets of the last closes.
ZscoreConfirms(rets) ==
    /\ rets # << >>
    /\ AbsAtLeast(ComputeZscore(rets), ZSCORE_THRESHOLD_E2)

\* A volume signal that compares the sum of the recent bars with the
\* average of one baseline bar.
VolumeConfirms_Unnormalised(volumes) ==
    /\ Len(volumes) >= VOLUME_AVG_WINDOW
    /\ LET n == Len(volumes)
           recent_vol == SumSeq(SubSeq(volumes, n - VOLUME_SPIKE_WINDOW + 1, n))
           base_vols  == SubSeq(volumes, 1, n - VOLUME_SPIKE_WINDOW)
       IN  /\ base_vols # << >>
           /\ SumSeq(base_vols) > 0
           /\ recent_vol * Len(base_vols) * 10
                 >= VOLUME_SPIKE_MULTIPLIER_E1 * SumSeq(base_vols)

\* The volume-spike signal on volumes, the volumes of the bars
\* get_bars(VOLUME_AVG_WINDOW) returns: mult = recent_vol / (avg_base_vol *
\* VOLUME_SPIKE_WINDOW) >= VOLUME_SPIKE_MULTIPLIER, with avg_base_vol =
\* sum(base_vols) / len(base_vols) > 0.
VolumeConfirms(volumes) ==
    /\ Len(volumes) >= VOLUME_AVG_WINDOW
    /\ LET n == Len(volumes)
           recent_vol == SumSeq(SubSeq(volumes, n - VOLUME_SPIKE_WINDOW + 1, n))
           base_vols  == SubSeq(volumes, 1, n - VOLUME_SPIKE_WINDOW)
       IN  /\ base_vols # << >>
           /\ SumSeq(base_vols) > 0
           /\ recent_vol * Len(base_vols) * 10
                 >= VOLUME_SPIKE_MULTIPLIER_E1 * SumSeq(base_vols) * VOLUME_SPIKE_WINDOW

\* The book-imbalance signal on the notional of the bids and of the asks of
\* the snapshot.
ImbalanceConfirms(bid_vol, ask_vol) ==
    /\ ask_vol > 0
    /\ bid_vol >= MIN_BID_DEPTH_USDT
    /\ MIN_IMBALANCE_E2 * ask_vol <= 100 * bid_vol
    /\ 100 * bid_vol <= MAX_IMBALANCE_E2 * ask_vol

\* confirmations and reasons of a confirmation pass.
CountSignals(rets, volumes, bid_vol, ask_vol) ==
    LET reasons == (IF ZscoreConfirms(rets) THEN {"ZOK"} ELSE {})
                   \cup (IF VolumeConfirms(volumes) THEN {"VolOK"} ELSE {})
                   \cup (IF ImbalanceConfirms(bid_vol, ask_vol) THEN {"ImbOK"} ELSE {})
    IN  [done |-> TRUE, rets |-> rets, volumes |-> volumes, bid_vol |-> bid_vol,
         ask_vol |-> ask_vol, reasons |-> reasons,
         confirmations |-> Cardinality(reasons)]

\* ----------------------------------------- the signals on drawn windows
\* Log-returns (in units of 0.0001) of the windows scored: none, and every
\* window of 4 and of 5 returns over three values.
RetValues == {-1, 0, 2}
RetLengths == {4, 5}
RetWindows == {<< >>} \cup UNION { [1..n -> RetValues] : n \in RetLengths }

\* Bar volumes: a baseline of equal bars followed by the recent bars, over
\* the full window and over a history one bar short of it.
BaseVolumes == {0, 1, 10}
RecentVolumes == {0, 1, 11}
VolumeWindows ==
    { [k \in 1..n |-> IF k <= n - VOLUME_SPIKE_WINDOW THEN b
                      ELSE r[k - (n - VOLUME_SPIKE_WINDOW)]]
        : b \in BaseVolumes, r \in [1..VOLUME_SPIKE_WINDOW -> RecentVolumes],
          n \in {VOLUME_AVG_WINDOW - 1, VOLUME_AVG_WINDOW} }

\* Notional (USDT) of the bid side and of the ask side of a snapshot.
Depths == { [bid_vol |-> 500, ask_vol |-> 400], [bid_vol |-> 300, ask_vol |-> 100],
            [bid_vol |-> 400, ask_vol |-> 400] }

\* The count of confirmation signals of one pass (one pass is followed).
EvalSignals ==
    /\ ~halted
    /\ ~exec_eval.done
    /\ \E rets \in RetWindows, volumes \in VolumeWindows, d \in Depths :
          exec_eval' = CountSignals(rets, volumes, d.bid_vol, d.ask_vol)
    /\ UNCHANGED << ws, setup_eval, bar_aggregators, tick_log, trade_log, now, pairs_data,
                    armed_candidates, arm_count, active_position, position_lock,
                    usdt_balance, risk, pair_trade_times, exec_waiting,
                    enter_waiting, enter_run, mon, orders, halted >>

SignalNext == EvalSignals

SignalSpec == Init /\ [][SignalNext]_vars

\* ------------------------------------------- fills on the private socket
\* An order update that finds the lock taken awaits it.
HandlerMayEnter_Always == TRUE

\* "async with self.position_lock" of handle_account_update: the handler goes
\* on when the lock is free.
HandlerMayEnter == position_lock = "free"

\* WSManager.run (private) receives the fill of one of the engine's orders,
\* once per fill, and calls handle_account_update with it; it reads the next
\* message when that call has returned.
WsReceive ==
    /\ ~halted
    /\ ws.update = NoUpdate
    /\ \E e \in OrderUpdates :
          /\ e.ordId \notin ws.received
          /\ ws' = [update   |-> e,
                    received |-> ws.received \cup {e.ordId},
                    early    |-> IF enter_run.pc = "accepted" /\ enter_run.ord = e.ordId
                                 THEN ws.early \cup {e.ordId} ELSE ws.early]
    /\ UNCHANGED << setup_eval, exec_eval, bar_aggregators, tick_log, trade_log, now,
                    pairs_data, armed_candidates, arm_count, active_position,
                    position_lock, usdt_balance, risk, pair_trade_times, exec_waiting,
                    enter_waiting, enter_run, mon, orders, halted >>

\* handle_account_update gets the lock and processes the update it was
\* called with.
WsHandle ==
    /\ ~halted
    /\ ws.update # NoUpdate
    /\ HandlerMayEnter
    /\ LET out == HandleOrderUpdate(active_position, ws.update, risk,
                                    pair_trade_times, now)
       IN  /\ active_position' = out.pos
           /\ risk' = out.risk
           /\ pair_trade_times' = out.ptt
           /\ trade_log' = trade_log \o out.logged
    /\ ws' = [ws EXCEPT !.update = NoUpdate]
    /\ UNCHANGED << setup_eval, exec_eval, bar_aggregators, tick_log, now, pairs_data,
                    armed_candidates, arm_count, position_lock, usdt_balance,
                    exec_waiting, enter_waiting, enter_run, mon, orders, halted >>

\* The engine with each fill delivered once, by the private socket task.
DeliverNext ==
    \/ Tick
    \/ HandleBBO
    \/ ExecResume
    \/ EnterAcquire
    \/ EnterBalance
    \/ EnterSubmit
    \/ EnterReturn
    \/ WsReceive
    \/ WsHandle
    \/ ExchFill
    \/ ExchAlgoFill
    \/ MonitorPoll
    \/ MonitorQuery
    \/ MonitorCancelAlgo
    \/ MonitorCancelOrder
    \/ MonitorTrailCancel
    \/ MonitorFcCancel
    \/ MonitorFcSubmit
    \/ Shutdown

DeliverSpec == Init /\ [][DeliverNext]_vars

\* ----------------------------------- the engine with its lock queue, busy
\* Trades of A-USDT the risk manager recorded before the run starts.
QueueCountsA == {0, 7, 8}

\* The engine at its start, after earlier trades of A-USDT 10 s apart, the
\* last one 10 s ago and a win.
QueueInit ==
    /\ now = StartTime
    /\ pairs_data = [i \in Insts |-> NoData]
    /\ armed_candidates = [i \in Insts |-> NoCandidate]
    /\ arm_count = 0
    /\ active_position = NoPosition
    /\ position_lock = "free"
    /\ usdt_balance = 0
    /\ \E na \in QueueCountsA :
          /\ risk = [daily_pnl |-> 0, consecutive_losses |-> 0,
                     last_trade_time |-> IF na > 0 THEN StartTime - 10 ELSE 0,
                     last_loss_time |-> 0]
          /\ pair_trade_times =
                [i \in Insts |-> IF i = "A-USDT" THEN PastTrades(na, StartTime - 10)
                                                 ELSE << >>]
    /\ exec_waiting = [i \in Insts |-> 0]
    /\ enter_waiting = {}
    /\ enter_run = NoRun
    /\ mon = MonIdle
    /\ orders = << >>
    /\ trade_log = << >>
    /\ bar_aggregators = [i \in Insts |-> NewAggregator]
    /\ tick_log = << >>
    /\ exec_eval = NoEval
    /\ setup_eval = NoSetup
    /\ ws = NoWs
    /\ halted = FALSE

\* asyncio.Lock wakes its waiters in the order they asked.  An
\* enter_position task asks for the lock as soon as it is created, before
\* its order exists, so the handler of a fill and the monitor's next poll
\* come after every entry task that is waiting.
QueuedUpdate == enter_waiting = {} /\ HandleUpdate

QueuedPoll == enter_waiting = {} /\ MonitorPoll

QueueNext ==
    \/ Tick
    \/ HandleBBO
    \/ ExecResume
    \/ EnterAcquire
    \/ EnterBalance
    \/ EnterSubmit
    \/ EnterReturn
    \/ QueuedUpdate
    \/ ExchFill
    \/ ExchAlgoFill
    \/ QueuedPoll
    \/ MonitorQuery
    \/ MonitorCancelAlgo
    \/ MonitorCancelOrder
    \/ MonitorTrailCancel
    \/ MonitorFcCancel
    \/ MonitorFcSubmit
    \/ Shutdown

QueueSpec == QueueInit /\ [][QueueNext]_vars

\* ---------------------------------------------------------- setup filters
\* config.MIN_CANDLES_FOR_ENTRY, config.LOOKBACK_CANDLES,
\* config.MIN_BREAKOUT_STRENGTH_BPS (1.5, in tenths), config.ATR_PERIOD,
\* config.MIN_ATR_BPS, config.FEE_TAKER_BPS, config.MAX_SLIPPAGE_BPS,
\* config.TP_ATR_MULTIPLIER (4.0), config.SL_ATR_MULTIPLIER (2.0), the bounds
\* of the targets in bps and config.MIN_RISK_REWARD_RATIO (0.2, in tenths).
\* config.REQUIRE_EMA_CROSS is False and config.BREAKOUT_DEAD_ZONE_BPS is 0:
\* those two filters are switched off.
MIN_CANDLES_FOR_ENTRY == 12
LOOKBACK_CANDLES == 8
MIN_BREAKOUT_STRENGTH_BPS_E1 == 15
ATR_PERIOD == 14
MIN_ATR_BPS == 5
FEE_TAKER_BPS == 10
MAX_SLIPPAGE_BPS == 5
TP_ATR_MULTIPLIER == 4
SL_ATR_MULTIPLIER == 2
MIN_TP_BPS == 20
MAX_TP_BPS == 80
MIN_SL_BPS == 15
MAX_SL_BPS == 60
MIN_RISK_REWARD_RATIO_E1 == 2

\* Exact fractions num / den with den > 0, in lowest terms.
RECURSIVE GCD(_, _)
GCD(a, b) == IF b = 0 THEN a ELSE GCD(b, a % b)

Frac(n, d) ==
    LET g == GCD(Abs(n), d)
    IN  [num |-> n \div g, den |-> d \div g]

FracInt(n) == [num |-> n, den |-> 1]

FracLess(a, b) == a.num * b.den < b.num * a.den

FracAdd(a, b) ==
    LET g == GCD(a.den, b.den)
    IN  Frac(a.num * (b.den \div g) + b.num * (a.den \div g), (a.den \div g) * b.den)

FracMul(a, b) ==
    LET g1 == GCD(Abs(a.num), b.den)
        g2 == GCD(Abs(b.num), a.den)
    IN  [num |-> (a.num \div g1) * (b.num \div g2),
         den |-> (a.den \div g2) * (b.den \div g1)]

FracMax(a, b) == IF FracLess(a, b) THEN b ELSE a
FracMin(a, b) == IF FracLess(b, a) THEN b ELSE a

RecentHigh_SkipNewestTwo(closes) ==
    LET n    == Len(closes)
        from == Max(1, n - LOOKBACK_CANDLES + 1)
        prev == {closes[k] : k \in from..(n - 2)}
    IN  CHOOSE x \in prev : \A y \in prev : y <= x

\* max(lookback_closes[:-1]) for lookback_closes = closes[-LOOKBACK_CANDLES:]
RecentHigh(closes) ==
    LET n    == Len(closes)
        from == Max(1, n - LOOKBACK_CANDLES + 1)
        prev == {closes[k] : k \in from..(n - 1)}
    IN  CHOOSE x \in prev : \A y \in prev : y <= x

\* float((atr * multiplier / current_price) * 10000): a distance of
\* multiplier ATRs in bps of the price.
RawBps(atr, multiplier, current_price) ==
    Frac(atr * multiplier * 10000, current_price)

\* (raw_tp_bps - expected_cost_bps) / (raw_sl_bps + expected_cost_bps)
RiskReward_GrossLoss(raw_tp_bps, raw_sl_bps, expected_cost_bps) ==
    FracMul(FracAdd(raw_tp_bps, FracInt(-expected_cost_bps)),
            [num |-> raw_sl_bps.den, den |-> raw_sl_bps.num])

RiskReward(raw_tp_bps, raw_sl_bps, expected_cost_bps) ==
    LET loss == FracAdd(raw_sl_bps, FracInt(expected_cost_bps))
    IN  FracMul(FracAdd(raw_tp_bps, FracInt(-expected_cost_bps)),
                [num |-> loss.den, den |-> loss.num])

\* max(lowest, min(highest, raw_bps))
ClampBps_Floor(lowest, highest, raw_bps) ==
    FracMax(FracInt(lowest), raw_bps)

ClampBps(lowest, highest, raw_bps) ==
    FracMax(FracInt(lowest), FracMin(FracInt(highest), raw_bps))

\* current_price * (1 + bps / 10000) for a target above the entry (sign 1),
\* current_price * (1 - bps / 10000) for one below it (sign -1).
TargetPrice(current_price, bps, sign) ==
    FracMul(FracInt(current_price),
            FracAdd(FracInt(1), FracMul(bps, Frac(sign, 10000))))

\* The filters of check_setup_conditions on an instrument without a
\* candidate, on the closes of its closed bars (one per bar) and the mean
\* true range atr of its last ATR_PERIOD bars (same unit as the closes): the
\* candidate it commits, or armed FALSE with the reason it logs.
SetupFilters(closes, atr) ==
    LET no(reason) == [NoSetup EXCEPT !.done = TRUE, !.closes = closes, !.atr = atr,
                                      !.reason = reason]
        n == Len(closes)
        current_price == closes[n]
        recent_high == RecentHigh(closes)
        expected_cost_bps == FEE_TAKER_BPS + MAX_SLIPPAGE_BPS
        raw_tp_bps == RawBps(atr, TP_ATR_MULTIPLIER, current_price)
        raw_sl_bps == RawBps(atr, SL_ATR_MULTIPLIER, current_price)
        rr == RiskReward(raw_tp_bps, raw_sl_bps, expected_cost_bps)
        tp_bps_adj == ClampBps(MIN_TP_BPS, MAX_TP_BPS, raw_tp_bps)
        sl_bps_adj == ClampBps(MIN_SL_BPS, MAX_SL_BPS, raw_sl_bps)
    IN  IF n < MIN_CANDLES_FOR_ENTRY THEN no("")
        ELSE IF current_price <= recent_high THEN no("No Breakout")
        ELSE IF (current_price - recent_high) * 10000 * 10
                   < MIN_BREAKOUT_STRENGTH_BPS_E1 * recent_high
             THEN no("Weak Breakout")
        ELSE IF n < ATR_PERIOD + 1 THEN no("")
        ELSE IF atr * 10000 < MIN_ATR_BPS * current_price THEN no("Low ATR")
        ELSE IF ~FracLess(FracInt(expected_cost_bps), raw_tp_bps) \/ raw_sl_bps.num <= 0
             THEN no("")
        ELSE IF FracLess(rr, [num |-> MIN_RISK_REWARD_RATIO_E1, den |-> 10])
             THEN no("Low R:R")
        ELSE [ done |-> TRUE, closes |-> closes, atr |-> atr, armed |-> TRUE,
               reason |-> "", entry_price |-> current_price,
               raw_tp_bps |-> raw_tp_bps, raw_sl_bps |-> raw_sl_bps,
               tp_bps |-> tp_bps_adj, sl_bps |-> sl_bps_adj, rr |-> rr,
               tp |-> TargetPrice(current_price, tp_bps_adj, 1),
               sl |-> TargetPrice(current_price, sl_bps_adj, -1) ]

\* ------------------------------------------ the filters on drawn histories
\* Closes in units of 0.005 USDT around 100.00 (1 unit is 0.5 bps): older
\* bars, then the LOOKBACK_CANDLES - 1 bars before the newest (all low but
\* one), then the newest close; and mean true ranges in the same unit (200
\* is 1.00 USDT).
OldCounts == {MIN_CANDLES_FOR_ENTRY - LOOKBACK_CANDLES - 1,
              MIN_CANDLES_FOR_ENTRY - LOOKBACK_CANDLES,
              ATR_PERIOD + 1 - LOOKBACK_CANDLES}
OldCloses == {19990, 20200}
HighCloses == {19997, 19999, 20000, 20003}
HighPlaces == {1, LOOKBACK_CANDLES - 1}
NewestCloses == {20000, 20001, 20003}
SetupHistories ==
    { [k \in 1..(o + LOOKBACK_CANDLES) |->
          IF k <= o THEN c
          ELSE IF k = o + LOOKBACK_CANDLES THEN new
          ELSE IF k = o + p THEN h
          ELSE 19990]
        : o \in OldCounts, c \in OldCloses, p \in HighPlaces, h \in HighCloses,
          new \in NewestCloses }
SetupAtrs == {7, 9, 10, 15, 30, 50, 200}

\* One run of the setup filters (one run is followed).
EvalSetup ==
    /\ ~halted
    /\ ~setup_eval.done
    /\ \E closes \in SetupHistories, atr \in SetupAtrs :
          setup_eval' = SetupFilters(closes, atr)
    /\ UNCHANGED << ws, exec_eval, bar_aggregators, tick_log, trade_log, now, pairs_data,
                    armed_candidates, arm_count, active_position, position_lock,
                    usdt_balance, risk, pair_trade_times, exec_waiting,
                    enter_waiting, enter_run, mon, orders, halted >>

FilterNext == EvalSetup

FilterSpec == Init /\ [][FilterNext]_vars

\* ================================================================ claims
\* The tasks enter_position has been created for: those waiting for the lock
\* and the one inside the critical section.
EnterTasks ==
    enter_waiting \cup
    (IF enter_run.pc = "none" THEN {}
     ELSE {[inst |-> enter_run.inst, cand |-> enter_run.cand, atr |-> enter_run.atr]})

\* C1: enter_position never submits an entry order and never assigns
\* active_position while a Position exists: every step that adds an order at
\* the exchange, and every step that puts a new Position (a new entry order
\* id) in active_position, starts in a state without a Position; and while
\* the entry task is between its test and its return there is no Position.
C1_SingleEntry ==
    [][ /\ Len(orders') > Len(orders) => ~HasPosition
        /\ (HasPosition' /\ active_position'.entry_order_id # active_position.entry_order_id)
              => ~HasPosition
        /\ enter_run'.pc # "none" => ~HasPosition' /\ position_lock' = "enter" ]_vars

\* C1 witness: a Position exists while an entry task created for another
\* instrument is still waiting for the lock.
C1_Witness ==
    /\ HasPosition
    /\ \E t \in enter_waiting : t.inst # active_position.inst_id

\* C2: one armed candidate leads to at most one enter_position dispatch and
\* is removed before a Position is built from it: the step that creates an
\* entry task takes a candidate that is armed (or that the step's own setup
\* scan has armed) and that no task or Position holds yet, and no candidate
\* held by a task or by the Position is armed.
C2_ConsumedOnce ==
    [][ /\ \A t \in enter_waiting' \ enter_waiting :
              /\ \/ armed_candidates[t.inst].armed /\ armed_candidates[t.inst].id = t.cand
                 \/ arm_count' = arm_count + 1 /\ t.cand = arm_count'
              /\ \A u \in EnterTasks : u.cand # t.cand
              /\ active_position.cand # t.cand
        /\ \A t \in EnterTasks' : armed_candidates'[t.inst].id # t.cand
        /\ HasPosition' =>
              armed_candidates'[active_position'.inst_id].id # active_position'.cand ]_vars

\* C2 witness: a Position built from a candidate exists while the same
\* instrument has been armed again with a new candidate.
C2_Witness ==
    /\ HasPosition
    /\ active_position.cand # 0
    /\ armed_candidates[active_position.inst_id].armed


\* The moves of Position.state the lifecycle allows.
ForwardMoves ==
    { << "ABSENT", "PENDING_ENTRY" >>, << "PENDING_ENTRY", "OPEN" >>,
      << "PENDING_ENTRY", "ABSENT" >>, << "OPEN", "CLOSING" >>,
      << "OPEN", "ABSENT" >>, << "CLOSING", "ABSENT" >>,
      << "CLOSING", "CLOSING_FAILED" >> }

\* C3: Position.state only moves forward: every step that changes the state
\* makes one of the moves absent -> PENDING_ENTRY -> OPEN -> CLOSING ->
\* {absent, CLOSING_FAILED}, PENDING_ENTRY -> absent, OPEN -> absent; a
\* Position that is OPEN never becomes PENDING_ENTRY again, one that is
\* CLOSING never becomes OPEN or PENDING_ENTRY again.
C3_ForwardOnly ==
    [][ active_position'.state # active_position.state
          => << active_position.state, active_position'.state >> \in ForwardMoves ]_vars

\* C3 witness: a Position has gone all the way to CLOSING, and the filled
\* entry order it was opened by can still be reported again.
C3_Witness ==
    /\ active_position.state = "CLOSING"
    /\ active_position.entry_price > 0
    /\ orders[active_position.entry_order_id].st = "filled"

\* The monitor is inside force_close_position.
InForceClose == mon.pc \in {"fc_cancel", "fc_sleep"}

\* C4: a Position in state CLOSING is one whose market exit order
\* force_close_position has placed and whose exit_order_id it has stored (the
\* fill of that order is what finalizes it): once force_close_position is
\* over, a CLOSING Position holds an exit order id.
C4_ClosingHasExitOrder ==
    (active_position.state = "CLOSING" /\ ~InForceClose)
        => active_position.exit_order_id # 0

\* The entry order of the Position is filled at the exchange.
EntryOrderFilled ==
    /\ active_position.entry_order_id \in 1..Len(orders)
    /\ orders[active_position.entry_order_id].st = "filled"

\* The Position has been PENDING_ENTRY for longer than the timeout and its
\* entry order is not filled.
PendingTimedOut ==
    /\ active_position.state = "PENDING_ENTRY"
    /\ now - active_position.time > ORDER_PENDING_TIMEOUT
    /\ ~EntryOrderFilled

\* C5 as stated: a Position PENDING_ENTRY for longer than
\* ORDER_PENDING_TIMEOUT whose entry order is not filled is eventually reset
\* to absent (or its order fills after all), for every outcome of the
\* order-status query, cancel-algo and cancel-order.
C5_TimeoutResets == PendingTimedOut ~> (~HasPosition \/ EntryOrderFilled)

\* C5 amended: once the order-status query of the timeout path has answered
\* (not filled), the Position is eventually reset to absent for every
\* outcome of cancel-algo and cancel-order, and the monitor leaves the
\* cancel-order call only with the Position absent.
C5_ResetAfterQuery ==
    /\ (mon.pc \in {"cancel_algo", "cancel_order"}) ~> ~HasPosition
    /\ [][ (mon.pc = "cancel_order" /\ mon'.pc # "cancel_order") => ~HasPosition' ]_vars

\* C5 witness: the Position has been discarded by the timeout path although
\* the cancel failed: its entry order is still live at the exchange.
C5_Witness ==
    /\ ~HasPosition
    /\ enter_run.pc = "none"
    /\ \E k \in 1..Len(orders) : orders[k].st = "live"

\* C6: when force_close_position ends without an exit order (the market exit
\* submission failed) the Position is CLOSING_FAILED.
C6_FailedExitFlagged ==
    [][ (mon.pc = "fc_sleep" /\ mon'.pc # "fc_sleep"
           /\ HasPosition' /\ active_position'.exit_order_id = 0)
          => active_position'.state = "CLOSING_FAILED" ]_vars

\* C7: no exception escapes monitor_position, and main's gather is never
\* left: the monitor task never ends and the process never shuts down.
C7_NeverHalts == mon.pc # "crashed" /\ ~halted

\* C8: enter_position creates a Position exactly when the entry submission is
\* accepted: the task that returns after an accepted submission leaves a
\* PENDING_ENTRY Position holding the returned entry order id and algo id;
\* the task that returns after an error or an insufficient balance leaves
\* the Position absent and the position state as it was; and a Position
\* appears in no other step.
C8_CreatedIffAccepted ==
    [][ /\ (enter_run.pc = "accepted" /\ enter_run'.pc = "none")
              => /\ active_position'.state = "PENDING_ENTRY"
                 /\ active_position'.entry_order_id = enter_run.ord
                 /\ active_position'.attach_algo_id = enter_run.algo
                 /\ active_position'.inst_id = enter_run.inst
                 /\ enter_run.ord \in 1..Len(orders)
                 /\ orders[enter_run.ord].inst = enter_run.inst
        /\ (enter_run.pc \in {"balance", "error"} /\ enter_run'.pc = "none")
              => /\ ~HasPosition'
                 /\ UNCHANGED << active_position, orders, risk, pair_trade_times >>
        /\ (~HasPosition /\ HasPosition') => enter_run.pc = "accepted" ]_vars

\* C8 witness: an entry task has run to its return on a refused submission or
\* an insufficient balance (a candidate was consumed before any could
\* expire, no order is at the exchange) and the Position is absent.
C8_Witness ==
    /\ ~HasPosition
    /\ now = StartTime
    /\ enter_run.pc = "none"
    /\ enter_waiting = {}
    /\ usdt_balance >= BASE_ORDER_NOTIONAL_USDT
    /\ arm_count > 0
    /\ \A i \in Insts : ~armed_candidates[i].armed
    /\ orders = << >>

\* The fields of a Position the entry fill sets.
FillFields(pos) ==
    << pos.entry_price, pos.entry_size, pos.entry_fee >>

\* C9: a Position leaves PENDING_ENTRY for OPEN only on a filled order event
\* with its entry order id, and then holds the event's fill price, size and
\* fee (as an amount) and a peak_price equal to the fill price; this happens
\* once per Position: an OPEN or CLOSING Position keeps these fields.
C9_EntryFill ==
    [][ /\ (active_position.state = "PENDING_ENTRY" /\ active_position'.state = "OPEN")
              => \E e \in OrderUpdates :
                    /\ e.ordId = active_position.entry_order_id
                    /\ e.state = "filled"
                    /\ active_position'.entry_order_id = e.ordId
                    /\ active_position'.entry_price = e.px
                    /\ active_position'.entry_size = e.sz
                    /\ active_position'.entry_fee = Abs(e.fee)
                    /\ active_position'.peak_price = e.px
        /\ active_position'.state = "OPEN" => active_position.state \in {"PENDING_ENTRY", "OPEN"}
        /\ (active_position.state \in {"OPEN", "CLOSING"} /\ HasPosition')
              => /\ FillFields(active_position') = FillFields(active_position)
                 /\ active_position'.time = active_position.time
                 /\ active_position'.entry_order_id = active_position.entry_order_id ]_vars

\* C9 witness: an OPEN Position holds the fill of its entry order, and the
\* clock has moved on since the fill (the filled order can be reported again).
C9_Witness ==
    /\ active_position.state = "OPEN"
    /\ active_position.entry_price = 10000
    /\ active_position.peak_price = 10000
    /\ active_position.entry_fee = 2
    /\ now > active_position.time

\* The spread of a snapshot is at most MAX_SPREAD_PCT percent of the ask.
SpreadWithinLimit(pd) ==
    pd.best_ask > 0 /\ (pd.best_ask - pd.best_bid) * 10000 <= MAX_SPREAD_PCT_E2 * pd.best_ask

\* The risk manager's state admits instrument i at time t.
RiskAdmits(i, t) ==
    /\ t - risk.last_trade_time >= COOL_DOWN_AFTER_EXIT_SEC
    /\ risk.consecutive_losses > 0 => t - risk.last_loss_time >= COOL_DOWN_AFTER_LOSS_SEC
    /\ risk.daily_pnl > -(MAX_DAILY_LOSS * 100)
    /\ risk.consecutive_losses < MAX_CONSECUTIVE_LOSSES
    /\ Cardinality({k \in 1..Len(pair_trade_times[i]) :
                       t - pair_trade_times[i][k] < HOUR_SEC}) < MAX_TRADES_PER_PAIR_PER_HOUR

\* C10: the step that dispatches an entry for instrument i runs with the
\* position lock free (it is the lock-held pass) and with, at that moment: a
\* candidate of i not older than ARMED_CANDIDATE_TIMEOUT_SEC, no Position,
\* the risk manager admitting i, and the spread of i's current snapshot at
\* most MAX_SPREAD_PCT.
C10_DispatchGuarded ==
    [][ \A t \in enter_waiting' \ enter_waiting :
           /\ position_lock = "free"
           /\ ~HasPosition
           /\ \/ /\ armed_candidates[t.inst].armed
                 /\ armed_candidates[t.inst].id = t.cand
                 /\ now - armed_candidates[t.inst].time <= ARMED_CANDIDATE_TIMEOUT_SEC
              \/ arm_count' = arm_count + 1 /\ t.cand = arm_count'
           /\ RiskAdmits(t.inst, now)
           /\ SpreadWithinLimit(pairs_data'[t.inst]) ]_vars

\* C10 witness: an entry has been dispatched after an earlier trade was
\* recorded (the risk manager's cooldown had to be over).
C10_Witness ==
    /\ enter_waiting # {}
    /\ risk.last_trade_time > 0

\* The candidate of instrument i is older than the timeout.
StaleCandidate(i) ==
    /\ armed_candidates[i].armed
    /\ now - armed_candidates[i].time > ARMED_CANDIDATE_TIMEOUT_SEC

\* This step runs a confirmation pass on instrument i through its critical
\* section: a pass that waited for the lock resumes, or a top-of-book update
\* with a positive mid arrives while the lock is free.
PassRuns(i) ==
    \/ exec_waiting'[i] < exec_waiting[i]
    \/ /\ pairs_data'[i] # pairs_data[i]
       /\ pairs_data'[i].mid > 0
       /\ position_lock = "free"

\* C11: every confirmation pass on an instrument whose candidate is older
\* than ARMED_CANDIDATE_TIMEOUT_SEC removes that candidate, whatever the
\* state of the Position.
C11_StaleRemoved ==
    [][ \A i \in Insts :
           (StaleCandidate(i) /\ PassRuns(i)) => ~armed_candidates'[i].armed ]_vars

\* The Position is OPEN and has been held for longer than the maximum.
HeldTooLong ==
    /\ active_position.state = "OPEN"
    /\ now - active_position.time > MAX_POSITION_HOLD_SECONDS

\* C12: the monitor's poll of an OPEN Position held longer than
\* MAX_POSITION_HOLD_SECONDS moves it to CLOSING (a forced close with reason
\* MAX_HOLD_TIME), and that forced close then submits a market exit order
\* for the filled size: it ends with the submission call made.
C12_MaxHoldExits ==
    [][ /\ (mon.pc = "sleep" /\ HeldTooLong /\ mon' # mon)
              => /\ active_position'.state = "CLOSING"
                 /\ mon'.reason = "MAX_HOLD_TIME"
        /\ (mon.reason = "MAX_HOLD_TIME" /\ mon.pc = "fc_sleep" /\ mon'.pc # "fc_sleep"
               /\ active_position.entry_size > 0)
              => /\ mon'.pc = "sleep"
                 /\ active_position'.state \in {"CLOSING", "CLOSING_FAILED"} ]_vars

\* Event e is a fill of the TP/SL algo attached to the Position.
AttachedAlgoFill(e) ==
    /\ active_position.attach_algo_id # 0
    /\ e.algoId = active_position.attach_algo_id
    /\ e.instId = active_position.inst_id

\* The row finalize_trade logs for the Position closed by event e as a
\* TP/SL hit.
TpslTrade(e) ==
    [ pair |-> active_position.inst_id,
      entry_price |-> active_position.entry_price,
      entry_size |-> active_position.entry_size,
      entry_fee |-> active_position.entry_fee,
      exit_price |-> e.px,
      exit_fee |-> Abs(e.fee),
      exit_type |-> "TP/SL_HIT",
      pnl_usdt |-> (e.px - active_position.entry_price) * active_position.entry_size
                   - (active_position.entry_fee + Abs(e.fee)),
      pnl_pct |-> [num |-> 100 * ((e.px - active_position.entry_price)
                                     * active_position.entry_size
                                  - (active_position.entry_fee + Abs(e.fee))),
                   den |-> active_position.entry_price * active_position.entry_size] ]

PeakReachedActivation ==
    active_position.peak_price * 10000
       >= active_position.entry_price * (10000 + TRAILING_ACTIVATION_BPS)

\* The price of the last poll is at or under peak_price minus
\* max(ATR * multiplier, entry_price * min_bps / 10000).
StopBreached ==
    LET by_atr == active_position.atr * TRAILING_DISTANCE_ATR_MULTIPLIER * 10000
        by_bps == active_position.entry_price * TRAILING_DISTANCE_MIN_BPS
        dist   == IF by_atr >= by_bps THEN by_atr ELSE by_bps
    IN  active_position.current * 10000 <= active_position.peak_price * 10000 - dist

\* C14: trailing is active exactly from the first poll that saw a price at
\* or over entry_price * (1 + TRAILING_ACTIVATION_BPS / 10000) on (the peak
\* is the highest price the polls saw): never before, and it stays active;
\* a forced close with reason TRAILING_STOP is under way only with trailing
\* active and the polled price at or under peak_price - max(ATR *
\* multiplier, entry_price * min_bps / 10000); and no poll leaves a Position
\* OPEN with trailing active and the polled price at or under that level.
C14_Trailing ==
    (HasPosition /\ active_position.entry_price > 0)
       => /\ active_position.trailing_active <=> PeakReachedActivation
          /\ mon.reason = "TRAILING_STOP"
                => active_position.trailing_active /\ StopBreached
          /\ (active_position.state = "OPEN" /\ mon.pc = "sleep"
                 /\ active_position.trailing_active) => ~StopBreached

\* C14 witness: a forced close for TRAILING_STOP at the boundary: peak
\* 100.15 (the activation price), stop distance 0.10 (the bps floor, ATR
\* 0.05), polled price 100.05.
C14_Witness ==
    /\ active_position.state = "CLOSING"
    /\ mon.reason = "TRAILING_STOP"
    /\ active_position.peak_price = 10015
    /\ active_position.current = 10005
    /\ active_position.atr = 5

\* C15: while a Position is OPEN its peak_price never decreases: every step
\* from an OPEN Position that keeps the Position leaves a peak_price at
\* least the previous one and at least the entry fill price, and the peak
\* of an OPEN Position is at least the price its last poll saw.
C15_PeakMonotone ==
    [][ /\ (active_position.state = "OPEN" /\ HasPosition')
              => /\ active_position'.peak_price >= active_position.peak_price
                 /\ active_position'.peak_price >= active_position'.entry_price
                 /\ active_position'.entry_price = active_position.entry_price
        /\ active_position'.state = "OPEN"
              => /\ active_position'.peak_price >= active_position'.entry_price
                 /\ active_position'.peak_price >= active_position'.current ]_vars

\* C15 witness: an OPEN Position whose peak is above the entry price and
\* above the price of its last poll (the price has come back down).
C15_Witness ==
    /\ active_position.state = "OPEN"
    /\ active_position.peak_price > active_position.entry_price
    /\ active_position.current > 0
    /\ active_position.current < active_position.peak_price
    /\ pairs_data[active_position.inst_id].mid = active_position.current

\* C16: once trailing has activated and the cancel of the attached algo has
\* returned, no TP/SL algo attached to the Position's entry order is live
\* at the exchange any more.
C16_AlgoCancelled ==
    (active_position.state = "OPEN" /\ active_position.trailing_active
        /\ mon.pc # "trail_cancel")
       => orders[active_position.entry_order_id].algo # "live"

\* Event e references the Position: its instrument, and its entry order id,
\* its attached algo id or its exit order id.
RefersToPosition(e) ==
    /\ HasPosition
    /\ e.instId = active_position.inst_id
    /\ \/ e.ordId = active_position.entry_order_id
       \/ active_position.attach_algo_id # 0 /\ e.algoId = active_position.attach_algo_id
       \/ active_position.exit_order_id # 0 /\ e.ordId = active_position.exit_order_id

\* C17: an order or algo event that references an id the Position does not
\* hold, or another instrument, or that arrives while no Position exists, is
\* ignored: in every state, handle_account_update on such an event leaves
\* the Position and the RiskState (risk fields, trade times) as they are
\* and logs and records no trade.
C17_StrayIgnored ==
    \A e \in OrderUpdates \cup StrayUpdates :
       ~RefersToPosition(e)
          => HandleOrderUpdate(active_position, e, risk, pair_trade_times, now)
               = [pos |-> active_position, risk |-> risk,
                  ptt |-> pair_trade_times, logged |-> << >>]

\* C17 witness: the Position is OPEN on its second order while the filled
\* algo of the first order, which it does not hold, is still reported.
C17_Witness ==
    /\ active_position.state = "OPEN"
    /\ active_position.entry_order_id = 2
    /\ orders[1].algo = "filled"
    /\ \E e \in OrderUpdates : e.algoId = 1 /\ ~RefersToPosition(e)

\* C18: handle_bbo_data on an update with a missing side or a mid price that
\* is not positive stores nothing: every snapshot pairs_data holds comes from
\* an update with both sides and a positive mid price.
C18_AnomalyStoresNothing ==
    \A i \in Insts : pairs_data[i].has => pairs_data[i].mid > 0

\* Seconds since the last trade was recorded.
SinceLastTrade == now - risk.last_trade_time

\* The checks of can_open_position for instrument i at the current time, in
\* the order the claim lists them: TRUE where the check fails.
ChecksFailing(i) ==
    << SinceLastTrade < COOL_DOWN_AFTER_EXIT_SEC,
       risk.consecutive_losses > 0 /\ now - risk.last_loss_time < COOL_DOWN_AFTER_LOSS_SEC,
       risk.daily_pnl <= -(MAX_DAILY_LOSS * 100),
       risk.consecutive_losses >= MAX_CONSECUTIVE_LOSSES,
       Cardinality({k \in 1..Len(pair_trade_times[i]) :
                       now - pair_trade_times[i][k] < HOUR_SEC})
          >= MAX_TRADES_PER_PAIR_PER_HOUR >>

CheckReasons ==
    << "Cooldown", "Loss cooldown", "Daily loss limit hit", "Max consecutive losses",
       "rate limit" >>

\* The reason of the first failing check, "" when none fails.
FirstFailing(i) ==
    LET failing == {k \in 1..5 : ChecksFailing(i)[k]}
    IN  IF failing = {} THEN ""
        ELSE CheckReasons[CHOOSE k \in failing : \A j \in failing : k <= j]

\* C19 as stated: after a trade is recorded at time t, can_open_position
\* returns false throughout [t, t + COOL_DOWN_AFTER_EXIT_SEC) and true at
\* every time at or after t + COOL_DOWN_AFTER_EXIT_SEC.
C19_TrueAfterCooldown ==
    trade_log # << >>
       => \A i \in Insts :
             (CanOpenReason(risk, pair_trade_times, i, 0, now) = "")
                <=> (SinceLastTrade >= COOL_DOWN_AFTER_EXIT_SEC)

\* C19 amended: after a trade is recorded at time t, can_open_position
\* returns false, for the post-exit cooldown, throughout [t, t +
\* COOL_DOWN_AFTER_EXIT_SEC); at every time at or after t +
\* COOL_DOWN_AFTER_EXIT_SEC the post-exit cooldown no longer blocks, and
\* the answer is true exactly when no other check (loss cooldown,
\* daily-loss cap, consecutive-loss cap, hourly rate cap) fails.
C19_CooldownBlocks ==
    trade_log # << >>
       => \A i \in Insts :
             LET reason == CanOpenReason(risk, pair_trade_times, i, 0, now)
             IN  /\ SinceLastTrade < COOL_DOWN_AFTER_EXIT_SEC => reason = "Cooldown"
                 /\ SinceLastTrade >= COOL_DOWN_AFTER_EXIT_SEC
                       => /\ reason # "Cooldown"
                          /\ reason = "" <=> \A k \in 2..5 : ~ChecksFailing(i)[k]

\* C19 witness: a winning trade was recorded exactly COOL_DOWN_AFTER_EXIT_SEC
\* ago and nothing else blocks A-USDT: the first moment it is admitted.
C19_Witness ==
    /\ trade_log # << >>
    /\ SinceLastTrade = COOL_DOWN_AFTER_EXIT_SEC
    /\ risk.consecutive_losses = 0
    /\ \A k \in 1..5 : ~ChecksFailing("A-USDT")[k]

\* C20: can_open_position(inst_id, 0) evaluates its checks in the order
\* post-exit cooldown, post-loss cooldown, daily-loss cap, consecutive-loss
\* cap, per-instrument hourly rate cap and returns the reason of the first
\* one that fails; it returns (true, "") exactly when none of them fails.
C20_FirstFailingCheck ==
    \A i \in Insts :
       CanOpenReason(risk, pair_trade_times, i, 0, now) = FirstFailing(i)

\* C20 witness: a trade has been recorded, both cooldowns are over, and the
\* daily-loss cap and the consecutive-loss cap both fail (the answer names
\* the daily-loss cap).
C20_Witness ==
    /\ trade_log # << >>
    /\ ~ChecksFailing("A-USDT")[1]
    /\ ~ChecksFailing("A-USDT")[2]
    /\ ChecksFailing("A-USDT")[3]
    /\ ChecksFailing("A-USDT")[4]

\* The row this step adds to the trade log (the trade it records).
NewTrade == trade_log'[Len(trade_log')]

\* C21: record_trade(instrument, pnl) adds pnl to daily_pnl, sets
\* last_trade_time to the current time and appends the current time to the
\* instrument's window; on a loss it increments consecutive_losses and sets
\* last_loss_time, on a win it resets consecutive_losses to 0 and keeps
\* last_loss_time; the windows of the other instruments are unchanged.
C21_RecordTrade ==
    [][ Len(trade_log') = Len(trade_log) + 1
          => /\ risk'.daily_pnl = risk.daily_pnl + NewTrade.pnl_usdt
             /\ risk'.last_trade_time = now
             /\ pair_trade_times'[NewTrade.pair]
                   = Append(pair_trade_times[NewTrade.pair], now)
             /\ \A i \in Insts \ {NewTrade.pair} :
                   pair_trade_times'[i] = pair_trade_times[i]
             /\ NewTrade.pnl_usdt < 0
                   => /\ risk'.consecutive_losses = risk.consecutive_losses + 1
                      /\ risk'.last_loss_time = now
             /\ NewTrade.pnl_usdt >= 0
                   => /\ risk'.consecutive_losses = 0
                      /\ risk'.last_loss_time = risk.last_loss_time ]_vars

\* C21 witness: a win has been recorded after a run of losses (the run is
\* reset, the time of the last loss kept) while the other instrument has
\* trades in its window.
C21_Witness ==
    /\ trade_log # << >>
    /\ trade_log[Len(trade_log)].pnl_usdt > 0
    /\ risk.consecutive_losses = 0
    /\ risk.last_loss_time > 0
    /\ risk.last_trade_time > risk.last_loss_time
    /\ Len(pair_trade_times["B-USDT"]) > 0

\* C22: finalize_trade computes pnl_usdt = (exit_price - entry_price) *
\* entry_size - (entry_fee + exit_fee) and pnl_pct = pnl_usdt / (entry_price *
\* entry_size) * 100 from the Position's entry fields and the fill that
\* closed it, passes that pnl_usdt to record_trade, and resets the Position
\* to absent.
C22_Finalize ==
    [][ Len(trade_log') = Len(trade_log) + 1
          => LET pos == active_position
                 k   == pos.attach_algo_id
                 xp  == orders[k].apx
                 xf  == Abs(orders[k].afee)
                 pnl == (xp - pos.entry_price) * pos.entry_size - (pos.entry_fee + xf)
             IN  /\ HasPosition
                 /\ NewTrade.pnl_usdt = pnl
                 /\ NewTrade.pnl_pct.den > 0
                 /\ NewTrade.pnl_pct.num * (pos.entry_price * pos.entry_size)
                       = (pnl * 100) * NewTrade.pnl_pct.den
                 /\ risk'.daily_pnl = risk.daily_pnl + pnl
                 /\ (risk'.consecutive_losses = risk.consecutive_losses + 1) <=> (pnl < 0)
                 /\ active_position' = NoPosition ]_vars

\* C22 witness: the trade entered at 100.00 with size 1 and fee 0.10 and
\* closed at 101.00 with fee 0.10 is settled: pnl_usdt 0.80, pnl_pct 0.8
\* (8 / 10), the day's P&L 0.80, the Position absent.
C22_Witness ==
    /\ ~HasPosition
    /\ Len(trade_log) = 1
    /\ LET t == trade_log[1]
       IN  /\ t.entry_price = 10000 /\ t.entry_size = 1 /\ t.entry_fee = 10
           /\ t.exit_price = 10100 /\ t.exit_fee = 10
           /\ t.pnl_usdt = 80
           /\ t.pnl_pct.num * 10 = 8 * t.pnl_pct.den
    /\ risk.daily_pnl = 80

\* The closed bars of the aggregator that is followed.
Bars == bar_aggregators[BarInst].bars

\* C23: the series of closed bars never holds more than its capacity; when
\* a bar closes at full capacity the oldest closed bar is evicted and the
\* others keep their order, and below capacity nothing is evicted.
C23_Capacity ==
    /\ [](Len(Bars) <= MaxBars)
    /\ [][ Bars' # Bars
             => IF Len(Bars) = MaxBars
                THEN /\ Len(Bars') = MaxBars
                     /\ \A k \in 1..(MaxBars - 1) : Bars'[k] = Bars[k + 1]
                ELSE /\ Len(Bars') = Len(Bars) + 1
                     /\ \A k \in 1..Len(Bars) : Bars'[k] = Bars[k] ]_vars

\* C23 witness: the series is full and more bars have been closed than it
\* holds: the bar of the first tick has been evicted.
C23_Witness ==
    /\ Len(Bars) = MaxBars
    /\ Len(tick_log) = MaxBars + 2
    /\ \A k \in 1..(Len(tick_log) - 1) : tick_log[k + 1].t > tick_log[k].t
    /\ \A k \in 1..Len(Bars) : Bars[k].start > tick_log[1].t

\* C24: for every tick sequence and every sequence of clock readings at the
\* ticks, the start times of the closed bars are strictly increasing.
C24_StartsIncrease ==
    \A k \in 1..(Len(Bars) - 1) : Bars[k].start < Bars[k + 1].start

\* The ticks of tick_log cut into bars: a tick opens a bar when it is the
\* first one or its bucket lies after the bucket of the tick that opened
\* the bar in progress; closed: the ticks of each closed bar, oldest first;
\* cur: the ticks of the bar in progress.
TickBars[n \in 0..MaxTicks + 1] ==
    IF n = 0 \/ n > Len(tick_log) THEN [closed |-> << >>, cur |-> << >>]
    ELSE LET prev == TickBars[n - 1]
             tk   == tick_log[n]
         IN  IF prev.cur = << >>
             THEN [closed |-> prev.closed, cur |-> << tk >>]
             ELSE IF BarBucket(tk.t) > BarBucket(prev.cur[1].t)
             THEN [closed |-> Append(prev.closed, prev.cur), cur |-> << tk >>]
             ELSE [prev EXCEPT !.cur = Append(@, tk)]

ClosedTicks == TickBars[Len(tick_log)].closed

\* Open, high, low, close and volume of a non-empty sequence of ticks.
Summary(ticks) ==
    LET pxs == {ticks[k].px : k \in 1..Len(ticks)}
    IN  [ o |-> ticks[1].px,
          h |-> CHOOSE x \in pxs : \A y \in pxs : y <= x,
          l |-> CHOOSE x \in pxs : \A y \in pxs : x <= y,
          c |-> ticks[Len(ticks)].px,
          vol |-> SumSeq([k \in 1..Len(ticks) |->
                            IF ticks[k].vol > 0 THEN ticks[k].vol ELSE 0]) ]

\* C25: each closed bar summarizes exactly the ticks folded into it (open
\* the first price, high the maximum, low the minimum, close the last price
\* before the next bucket began, volume the sum of the positive volumes),
\* and get_bars / get_closes return closed bars only, never the bar in
\* progress.
C25_BarSummaries ==
    LET n     == Len(Bars)
        done  == ClosedTicks
        first == Len(done) - n
        agg   == bar_aggregators[BarInst]
    IN  /\ n = Min(Len(done), MaxBars)
        /\ \A k \in 1..n :
              LET b == Bars[k]
              IN  [o |-> b.o, h |-> b.h, l |-> b.l, c |-> b.c, vol |-> b.vol]
                     = Summary(done[first + k])
        /\ Len(GetBars(agg, 0)) = n
        /\ \A k \in 1..n : /\ GetBars(agg, 0)[k] = Bars[k]
                            /\ GetCloses(agg, 0)[k] = Summary(done[first + k]).c
        /\ \A m \in 1..MaxBars :
              /\ Len(GetBars(agg, m)) = Min(m, n)
              /\ \A k \in 1..Min(m, n) :
                    GetCloses(agg, m)[k] = Summary(done[Len(done) - Min(m, n) + k]).c

\* C25 witness: a closed bar of three ticks whose open, high and low are
\* three different prices and whose volume comes from two trades, while
\* the bar in progress holds a tick of its own.
C25_Witness ==
    /\ Len(Bars) >= 1
    /\ \E k \in 1..Len(Bars) :
          /\ Bars[k].o = 10000 /\ Bars[k].h = 10002 /\ Bars[k].l = 9999
          /\ Bars[k].c = 9999 /\ Bars[k].vol = 4
    /\ bar_aggregators[BarInst].current_bar.has
    /\ bar_aggregators[BarInst].current_bar.c = 10002

\* C26: the setup scan is idempotent: with an armed candidate for the
\* instrument check_setup_conditions changes nothing, whatever the filters
\* say, so an instrument that stays armed over a step keeps the same
\* candidate with its first arm timestamp (one candidate per instrument).
C26_SetupIdempotent ==
    [][ \A i \in Insts :
          /\ armed_candidates[i].armed
                => \A arm \in BOOLEAN, atr \in AtrChoices :
                      SetupScan(armed_candidates, i, arm, atr) = armed_candidates
          /\ (armed_candidates[i].armed /\ armed_candidates'[i].armed)
                => armed_candidates'[i] = armed_candidates[i] ]_vars

\* C26 witness: an update of A-USDT (the one with the wide spread) whose
\* setup filters pass has been handled after the arming, and the candidate
\* is the one armed earlier, timestamp included.
C26_Witness ==
    /\ pairs_data["A-USDT"].best_ask = 10042
    /\ armed_candidates["A-USDT"] = EarlierCandidate
    /\ arm_count < MaxArms

\* The numbers of confirmation signals a pass can count (z-score, volume
\* spike, book imbalance).
ConfCounts == 0..3

\* A lock-held pass on instrument i gets as far as counting the
\* confirmation signals: no Position, a candidate that is not stale, the
\* risk manager admitting i and a spread within the limit.
ReachesCount(i, pd) ==
    /\ ~HasPosition
    /\ armed_candidates[i].armed
    /\ ~StaleCandidate(i)
    /\ RiskAdmits(i, now)
    /\ SpreadWithinLimit(pd)

\* C27: a confirmation pass dispatches an entry only when the number of
\* passing confirmation signals is at least MIN_CONFIRMATIONS_NEEDED; a pass
\* that counts fewer dispatches nothing and leaves the candidate armed (a
\* pass that counts enough pops the candidate and dispatches).
C27_ConfirmationsNeeded ==
    \A i \in Insts, conf \in ConfCounts :
       LET pd  == pairs_data[i]
           out == ExecCritical(armed_candidates, i, conf, pd)
       IN  /\ out.fire => conf >= MIN_CONFIRMATIONS_NEEDED
           /\ (pd.has /\ ReachesCount(i, pd))
                 => IF conf < MIN_CONFIRMATIONS_NEEDED
                    THEN ~out.fire /\ out.cands = armed_candidates
                    ELSE out.fire /\ ~out.cands[i].armed

\* C27 witness: a pass on an armed instrument has run with the lock free,
\* no Position, a fresh candidate, the risk manager admitting and a narrow
\* spread, and the candidate is still armed with no entry dispatched: the
\* pass counted too few confirmations.
C27_Witness ==
    \E i \in Insts :
       /\ pairs_data[i].has
       /\ ReachesCount(i, pairs_data[i])
       /\ position_lock = "free"
       /\ exec_waiting[i] = 0
       /\ enter_waiting = {}
       /\ enter_run = NoRun
       /\ risk.last_trade_time > 0

\* C28: for a window with at least 5 log-returns the momentum signal counts
\* as a confirmation exactly when |z| >= ZSCORE_THRESHOLD, z = (last return -
\* mean of the window) / population standard deviation of the window.
C28_ZscoreSignal ==
    (exec_eval.done /\ Len(exec_eval.rets) >= 5)
       => LET r == exec_eval.rets
              n == Len(r)
              S == SumSeq(r)
              Q == SumSeq([k \in 1..n |-> r[k] * r[k]])
          IN  ("ZOK" \in exec_eval.reasons)
                 <=> /\ n * Q - S * S > 0
                     /\ (n * r[n] - S) * (n * r[n] - S) * 10000
                           >= ZSCORE_THRESHOLD_E2 * ZSCORE_THRESHOLD_E2 * (n * Q - S * S)

\* C29: for a window with fewer than 5 returns compute_zscore returns 0.0,
\* and (the threshold being positive) the momentum signal does not count as
\* a confirmation.
C29_ShortWindow ==
    (exec_eval.done /\ Len(exec_eval.rets) < 5)
       => /\ ComputeZscore(exec_eval.rets).num = 0
          /\ "ZOK" \notin exec_eval.reasons

\* C29 witness: a pass has scored a window of 4 returns whose last return
\* stands out from the others, without a momentum confirmation.
C29_Witness ==
    /\ exec_eval.done
    /\ exec_eval.rets = << 0, 0, 0, 2 >>
    /\ "ZOK" \notin exec_eval.reasons

\* Sum of the volumes of the most recent VOLUME_SPIKE_WINDOW bars of a
\* window, and of the baseline bars before them.
RecentSum(v) == SumSeq([k \in 1..VOLUME_SPIKE_WINDOW |-> v[Len(v) - VOLUME_SPIKE_WINDOW + k]])
BaselineSum(v) == SumSeq([k \in 1..(Len(v) - VOLUME_SPIKE_WINDOW) |-> v[k]])
BaselineLen(v) == Len(v) - VOLUME_SPIKE_WINDOW

\* C30 as stated: on a full window with a baseline that has volume, the
\* volume-spike signal confirms exactly when (sum of the recent bars) /
\* (average volume of a baseline bar) >= VOLUME_SPIKE_MULTIPLIER.
C30_SumOverAverage ==
    LET v == exec_eval.volumes
    IN  (exec_eval.done /\ Len(v) = VOLUME_AVG_WINDOW /\ BaselineSum(v) > 0)
           => (("VolOK" \in exec_eval.reasons)
                  <=> RecentSum(v) * BaselineLen(v) * 10
                         >= VOLUME_SPIKE_MULTIPLIER_E1 * BaselineSum(v))

\* C30 amended: the volume-spike signal confirms exactly when the history
\* holds at least VOLUME_AVG_WINDOW closed bars, the baseline bars of the
\* window have positive total volume, and (sum of the recent bars) /
\* (average volume of a baseline bar * VOLUME_SPIKE_WINDOW) >=
\* VOLUME_SPIKE_MULTIPLIER.
C30_AverageOverAverage ==
    LET v == exec_eval.volumes
    IN  exec_eval.done
           => (("VolOK" \in exec_eval.reasons)
                  <=> /\ Len(v) >= VOLUME_AVG_WINDOW
                      /\ BaselineSum(v) > 0
                      /\ RecentSum(v) * BaselineLen(v) * 10
                            >= VOLUME_SPIKE_MULTIPLIER_E1 * BaselineSum(v)
                                  * VOLUME_SPIKE_WINDOW)

\* C30 witness: baseline bars of volume 10 and three recent bars of volume
\* 11 (exactly 1.1 times the baseline average per bar) confirm.
C30_Witness ==
    /\ exec_eval.done
    /\ Len(exec_eval.volumes) = VOLUME_AVG_WINDOW
    /\ exec_eval.volumes[1] = 10
    /\ \A k \in 1..VOLUME_SPIKE_WINDOW :
          exec_eval.volumes[VOLUME_AVG_WINDOW - VOLUME_SPIKE_WINDOW + k] = 11
    /\ "VolOK" \in exec_eval.reasons

\* C31: a candidate is armed only if the newest close exceeds the highest of
\* the closes of the lookback window before it by at least
\* MIN_BREAKOUT_STRENGTH_BPS (1.5 bps) of that high; and on a long enough
\* history a breakout of 0.5 bps is rejected as a Weak Breakout and arms
\* nothing.
LookbackHighs ==
    LET c == setup_eval.closes
        n == Len(c)
    IN  {c[k] : k \in (n - LOOKBACK_CANDLES + 1)..(n - 1)}

LookbackHigh == CHOOSE x \in LookbackHighs : \A y \in LookbackHighs : y <= x

NewestClose == setup_eval.closes[Len(setup_eval.closes)]

C31_BreakoutStrength ==
    setup_eval.done =>
        /\ setup_eval.armed =>
              /\ NewestClose > LookbackHigh
              /\ (NewestClose - LookbackHigh) * 100000 >= 15 * LookbackHigh
        /\ ( /\ Len(setup_eval.closes) >= MIN_CANDLES_FOR_ENTRY
             /\ (NewestClose - LookbackHigh) * 100000 = 5 * LookbackHigh )
            => (~setup_eval.armed /\ setup_eval.reason = "Weak Breakout")

C31_Witness ==
    /\ setup_eval.done
    /\ setup_eval.armed
    /\ (NewestClose - LookbackHigh) * 100000 = 15 * LookbackHigh
    /\ \E k \in DOMAIN setup_eval.closes : setup_eval.closes[k] > NewestClose

C31_WitnessWeak ==
    /\ setup_eval.done
    /\ Len(setup_eval.closes) >= ATR_PERIOD + 1
    /\ (NewestClose - LookbackHigh) * 100000 = 5 * LookbackHigh
    /\ setup_eval.reason = "Weak Breakout"

\* C32: in a committed candidate the raw distances in bps are ATR times the
\* multiplier (4 for the target, 2 for the stop) over the price times 10000,
\* so entry 100 and ATR 1 give 400 and 200; the stored risk-reward is the
\* target net of fee and slippage over the stop plus fee and slippage; and a
\* setup whose net target or net stop is not positive commits nothing.
ExpectedCostBps == FEE_TAKER_BPS + MAX_SLIPPAGE_BPS

C32_WitnessNetTarget ==
    /\ setup_eval.done
    /\ Len(setup_eval.closes) >= ATR_PERIOD + 1
    /\ NewestClose = 20003
    /\ LookbackHigh = 20000
    /\ setup_eval.atr * 4 * 10000 <= ExpectedCostBps * NewestClose
    /\ ~setup_eval.armed

\* C33: every committed candidate has MIN_TP_BPS <= tp_bps <= MAX_TP_BPS and
\* MIN_SL_BPS <= sl_bps <= MAX_SL_BPS, its stop is below and its target above
\* the entry price, and target = entry * (1 + tp_bps / 10000), stop =
\* entry * (1 - sl_bps / 10000).
FracWithin(lowest, x, highest) ==
    /\ lowest * x.den <= x.num
    /\ x.num <= highest * x.den

C33_ClampedTargets ==
    (setup_eval.done /\ setup_eval.armed) =>
        /\ FracWithin(MIN_TP_BPS, setup_eval.tp_bps, MAX_TP_BPS)
        /\ FracWithin(MIN_SL_BPS, setup_eval.sl_bps, MAX_SL_BPS)
        /\ setup_eval.sl.num < setup_eval.entry_price * setup_eval.sl.den
        /\ setup_eval.entry_price * setup_eval.tp.den < setup_eval.tp.num
        /\ FracMul(setup_eval.tp, FracInt(10000))
              = FracMul(FracInt(setup_eval.entry_price),
                        FracAdd(FracInt(10000), setup_eval.tp_bps))
        /\ FracAdd(FracMul(setup_eval.sl, FracInt(10000)),
                   FracMul(FracInt(setup_eval.entry_price), setup_eval.sl_bps))
              = FracInt(setup_eval.entry_price * 10000)

\* Both targets clamped: a raw target above the ceiling and, in another run,
\* a raw stop below the floor.
C33_Witness ==
    /\ setup_eval.done
    /\ setup_eval.armed
    /\ FracLess(FracInt(MAX_TP_BPS), setup_eval.raw_tp_bps)
    /\ FracLess(FracInt(MAX_SL_BPS), setup_eval.raw_sl_bps)
    /\ setup_eval.tp_bps = FracInt(MAX_TP_BPS)
    /\ setup_eval.sl_bps = FracInt(MAX_SL_BPS)

C33_WitnessFloor ==
    /\ setup_eval.done
    /\ setup_eval.armed
    /\ FracLess(setup_eval.raw_sl_bps, FracInt(MIN_SL_BPS))
    /\ setup_eval.sl_bps = FracInt(MIN_SL_BPS)

\* C40: the targets stored in a committed candidate satisfy the minimum net
\* reward:risk, (tp_bps - fee - slippage) / (sl_bps + fee + slippage) >=
\* MIN_RISK_REWARD_RATIO, and the stored risk-reward is that quotient.
ClampedReward == FracAdd(setup_eval.tp_bps, FracInt(-ExpectedCostBps))
ClampedRisk == FracAdd(setup_eval.sl_bps, FracInt(ExpectedCostBps))

C40_ClampedRiskReward ==
    (setup_eval.done /\ setup_eval.armed) =>
        /\ ~FracLess(FracMul(ClampedReward, FracInt(10)),
                     FracMul(ClampedRisk, FracInt(MIN_RISK_REWARD_RATIO_E1)))
        /\ FracMul(setup_eval.rr, ClampedRisk) = ClampedReward

\* The first half alone, and the state where it fails: ATR 0.05 at 100.00.
C40_MinimumKept ==
    (setup_eval.done /\ setup_eval.armed) =>
        ~FracLess(FracMul(ClampedReward, FracInt(10)),
                  FracMul(ClampedRisk, FracInt(MIN_RISK_REWARD_RATIO_E1)))

C40_BelowMinimum ==
    /\ setup_eval.done
    /\ setup_eval.armed
    /\ NewestClose = 20000
    /\ setup_eval.atr = 10
    /\ setup_eval.rr = [num |-> 1, den |-> 5]
    /\ setup_eval.tp_bps = FracInt(20)
    /\ setup_eval.sl_bps = FracInt(15)

\* C34: no task tries to acquire the position lock while it holds it, and
\* the lock is always released again: the monitor never awaits the fill
\* handler, which takes the lock, from inside its own critical section.
C34_NoReacquire == ~(position_lock = "monitor" /\ mon.pc = "deadlock")

\* C35: when the pending-entry timeout has fired and the status query finds
\* the entry order filled, the step that ends the query leaves the monitor
\* polling with the lock free, and the Position either as it was (the query
\* itself failed) or OPEN with the fill's price, size and fee.
EntryOrder == orders[active_position.entry_order_id]

C35_TimeoutFillOpens ==
    [][ ( /\ mon.pc = "query"
          /\ mon'.pc # "query"
          /\ EntryOrder.st = "filled" )
        => ( /\ mon'.pc = "sleep"
             /\ position_lock' = "free"
             /\ \/ active_position' = active_position
                \/ /\ active_position'.state = "OPEN"
                   /\ active_position'.entry_price = EntryOrder.px
                   /\ active_position'.entry_size = EntryOrder.sz
                   /\ active_position'.entry_fee = Abs(EntryOrder.fee) ) ]_vars

\* The query has reported the fill and the Position is still pending.
C35_FillNotProcessed ==
    /\ mon.pc = "deadlock"
    /\ active_position.state = "PENDING_ENTRY"
    /\ EntryOrder.st = "filled"

\* C36: an entry fill received while enter_position is still inside the
\* submission call waits for the position lock the entry task holds, and
\* once it has been handled the Position of that order is no longer
\* PENDING_ENTRY: it has become OPEN with the fill's price and size (and may
\* have gone on from OPEN).
C36_EarlyFillOpens ==
    /\ ( /\ ws.update # NoUpdate
         /\ ws.update.ordId \in ws.early
         /\ enter_run.pc = "accepted" )
       => position_lock = "enter"
    /\ \A k \in ws.early :
          ( /\ ws.update.ordId # k
            /\ active_position.state # "ABSENT"
            /\ active_position.entry_order_id = k )
          => /\ active_position.state \in {"OPEN", "CLOSING", "CLOSING_FAILED"}
             /\ active_position.entry_price = orders[k].px
             /\ active_position.entry_size = orders[k].sz

C36_Witness ==
    \E k \in ws.early :
       /\ ws.update = NoUpdate
       /\ active_position.entry_order_id = k
       /\ active_position.state = "OPEN"
       /\ active_position.entry_price = orders[k].px

\* C37: a Position that has been OPEN is reset to absent only by a step
\* that settles it through record_trade, once, with its realized P&L: the
\* step logs one trade, adds that trade's P&L to daily_pnl and appends one
\* time to the instrument's window.
Opened == active_position.state \in {"OPEN", "CLOSING", "CLOSING_FAILED"}

C37_SettledOnce ==
    [][ (Opened /\ active_position'.state = "ABSENT")
        => ( /\ Len(trade_log') = Len(trade_log) + 1
             /\ risk'.daily_pnl = risk.daily_pnl + NewTrade.pnl_usdt
             /\ pair_trade_times'[active_position.inst_id]
                   = Append(pair_trade_times[active_position.inst_id], now) ) ]_vars

\* An opened Position is gone and nothing was ever recorded.
C37_ClearedUnrecorded ==
    /\ active_position.state = "ABSENT"
    /\ orders # << >>
    /\ orders[1].algo = "filled"
    /\ trade_log = << >>
    /\ risk.last_trade_time = 0

\* C38: the engine never submits an entry order while an entry order it
\* placed earlier is still live at the exchange, so at most one of its entry
\* orders is live at any time.
LiveEntries == {k \in 1..Len(orders) : orders[k].st = "live"}

C38_OneLiveEntry == Cardinality(LiveEntries) <= 1

\* The first order has survived its cancel and the Position that knew it is
\* gone when the second is submitted.
C38_SecondWhileLive ==
    /\ Len(orders) = 2
    /\ orders[1].st = "live"
    /\ orders[2].st = "live"
    /\ enter_run.pc = "accepted"
    /\ enter_run.ord = 2
    /\ enter_waiting = {}
    /\ active_position.state = "ABSENT"

\* C39: for each instrument, at most MAX_TRADES_PER_PAIR_PER_HOUR of the
\* recorded trade times lie within any window of 3600 seconds (the windows
\* that end at a recorded trade are the fullest ones).
TradesInHourTo(i, j) ==
    {k \in 1..j : pair_trade_times[i][j] - pair_trade_times[i][k] < HOUR_SEC}

C39_HourlyCap ==
    \A i \in Insts : \A j \in DOMAIN pair_trade_times[i] :
       Cardinality(TradesInHourTo(i, j)) <= MAX_TRADES_PER_PAIR_PER_HOUR

\* The eighth trade of the hour has been recorded in this run, and a fresh
\* candidate of the instrument is now refused for the rate alone.
C39_Witness ==
    /\ Len(trade_log) = 1
    /\ Len(pair_trade_times["A-USDT"]) = MAX_TRADES_PER_PAIR_PER_HOUR
    /\ armed_candidates["A-USDT"].armed
    /\ now - armed_candidates["A-USDT"].time <= ARMED_CANDIDATE_TIMEOUT_SEC
    /\ ~HasPosition
    /\ CanOpenReason(risk, pair_trade_times, "A-USDT", 0, now) = "rate limit"
====
